---- MODULE Spec2Model ----
(***************************************************************************)
(* A model of quant-loop (package qloop): the event loop Engine.run, the   *)
(* Metrics accumulator and the determinism controller of the command line. *)
(*                                                                         *)
(* Conventions.                                                            *)
(*  - A Python str is a sequence of one-character strings, so that         *)
(*    formatting and stripping are computed, not assumed.                  *)
(*  - A Python dict is a function whose DOMAIN is the set of keys present. *)
(*  - Times are integers.  TLC's integers have 32 bits, so the unit is the *)
(*    microsecond: a reading r of the clock stands for the value 1000*r of *)
(*    time.perf_counter_ns, and the fields named _ns hold microseconds.    *)
(*    The two floats derived from readings (elapsed_s and the t_s of a     *)
(*    queue-depth point) are kept as these integer numerators.             *)
(*  - Prices are small integers.  For such values the float arithmetic of  *)
(*    _update_roll is exact in sign: close - sum/len > 0 iff               *)
(*    close*len > sum.  Notionals and positions are integer multiples of   *)
(*    1000.0, exact in float64.                                            *)
(*  - A sha256 digest is represented by its preimage (no collisions).      *)
(***************************************************************************)
EXTENDS Integers, Sequences, FiniteSets, TLC

(***************************************************************************)
(* Bounds of the model.                                                    *)
(***************************************************************************)
\* granularity of the modelled clock: every reading is ClockOrigin + k*TickUs
\* (microseconds)
TickUs == 250000
\* the clock reading when the process starts
ClockOrigin == 5
\* the first FreeReads readings of a run advance by 0 or 1 tick, freely
FreeReads == 3
\* afterwards the clock advances one tick every period-th reading; the slow
\* clock lets a run take more than 55 events of one symbol
LongPeriod == 80
MidPeriod == 3
\* largest duration_s drawn
MaxDuration == 2
\* rows of the trending fixture
TrendLen == 56

(***************************************************************************)
(* Program constants.                                                      *)
(***************************************************************************)
\* 1_000_000_000 ns
UsPerSecond == 1000000
\* 50_000_000 ns
SampleIntervalUs == 50000
DefaultMaxQueue == 4096
NAV == 1000000
\* per_asset_cap = 0.05, kept as a percentage
PerAssetCapPct == 5
UnitNotional == 1000
WindowMaxLen == 10
MinWindow == 5
QueueSeriesCap == 200
CheckRuns == 3
\* bins = 20
HistBins == 20
\* 1e6 ns in a millisecond: 1000 of the model's microseconds
UsPerMs == 1000
\* k = 50
ReservoirSize == 50

(***************************************************************************)
(* Strings                                                                 *)
(***************************************************************************)
Digits == <<"0", "1", "2", "3", "4", "5", "6", "7", "8", "9">>

RECURSIVE NatStr(_)
NatStr(n) == IF n < 10 THEN <<Digits[n + 1]>>
             ELSE NatStr(n \div 10) \o <<Digits[(n % 10) + 1]>>

\* f"{n}" for an int n
IntStr(n) == IF n < 0 THEN <<"-">> \o NatStr(-n) ELSE NatStr(n)

Whitespace == {" ", "\n", "\t", "\r"}

RECURSIVE LStrip(_)
LStrip(s) == IF s # <<>> /\ Head(s) \in Whitespace THEN LStrip(Tail(s)) ELSE s

RECURSIVE RStrip(_)
RStrip(s) == IF s # <<>> /\ s[Len(s)] \in Whitespace
             THEN RStrip(SubSeq(s, 1, Len(s) - 1)) ELSE s

\* str.strip()
Strip(s) == RStrip(LStrip(s))

\* a truncated sha256 hex digest, represented by its preimage
Sha256Hex(s) == <<"#">> \o s

(***************************************************************************)
(* Dictionaries                                                            *)
(***************************************************************************)
EmptyDict == [k \in {} |-> 0]
Get(d, k, default) == IF k \in DOMAIN d THEN d[k] ELSE default
Put(d, k, v) == [x \in (DOMAIN d) \cup {k} |-> IF x = k THEN v ELSE d[x]]

\* the sum of the values of a dictionary
RECURSIVE SumOf(_)
SumOf(d) ==
    IF DOMAIN d = {} THEN 0
    ELSE LET k == CHOOSE x \in DOMAIN d : TRUE
         IN  d[k] + SumOf([x \in (DOMAIN d) \ {k} |-> d[x]])

Abs(x) == IF x < 0 THEN -x ELSE x
Max(a, b) == IF a >= b THEN a ELSE b
Min(a, b) == IF a <= b THEN a ELSE b

RECURSIVE Insert(_, _)
Insert(x, s) ==
    IF s = << >> THEN <<x>>
    ELSE IF x <= Head(s) THEN <<x>> \o s
    ELSE <<Head(s)>> \o Insert(x, Tail(s))

\* sorted() left as the identity
Unsorted(s) == s

\* sorted(list)
RECURSIVE Sorted(_)
Sorted(s) == IF s = << >> THEN << >> ELSE Insert(Head(s), Sorted(Tail(s)))

\* max(list) of a non-empty list
RECURSIVE SeqMax(_)
SeqMax(s) == IF Len(s) = 1 THEN s[1] ELSE Max(s[1], SeqMax(Tail(s)))

(***************************************************************************)
(* Natural numbers of any size: the sequence of their digits in base       *)
(* 2^LimbBits, the most significant first and not 0; << >> is 0.           *)
(***************************************************************************)
LimbBits == 15
Base == 2 ^ LimbBits

RECURSIVE NNorm(_)
NNorm(a) == IF a # << >> /\ Head(a) = 0 THEN NNorm(Tail(a)) ELSE a

Front(a) == SubSeq(a, 1, Len(a) - 1)
LowLimb(a) == IF a = << >> THEN 0 ELSE a[Len(a)]
FrontOrEmpty(a) == IF a = << >> THEN a ELSE Front(a)

RECURSIVE NAddC(_, _, _)
NAddC(a, b, carry) ==
    IF a = << >> /\ b = << >> THEN (IF carry > 0 THEN <<carry>> ELSE << >>)
    ELSE NAddC(FrontOrEmpty(a), FrontOrEmpty(b),
               (LowLimb(a) + LowLimb(b) + carry) \div Base)
            \o <<(LowLimb(a) + LowLimb(b) + carry) % Base>>

NAdd(a, b) == NAddC(a, b, 0)

\* a - b for a >= b
RECURSIVE NSubB(_, _, _)
NSubB(a, b, borrow) ==
    IF a = << >> THEN << >>
    ELSE NSubB(Front(a), FrontOrEmpty(b),
               IF LowLimb(a) - LowLimb(b) - borrow < 0 THEN 1 ELSE 0)
            \o <<(LowLimb(a) - LowLimb(b) - borrow + Base) % Base>>

NSub(a, b) == NNorm(NSubB(a, b, 0))

RECURSIVE NLexLess(_, _)
NLexLess(a, b) ==
    /\ a # << >>
    /\ \/ Head(a) < Head(b)
       \/ Head(a) = Head(b) /\ NLexLess(Tail(a), Tail(b))

NLess(a, b) == Len(a) < Len(b) \/ (Len(a) = Len(b) /\ NLexLess(a, b))

\* a * k for 0 <= k < Base
RECURSIVE NTimesC(_, _, _)
NTimesC(a, k, carry) ==
    IF a = << >> THEN (IF carry > 0 THEN <<carry>> ELSE << >>)
    ELSE NTimesC(Front(a), k, (LowLimb(a) * k + carry) \div Base)
            \o <<(LowLimb(a) * k + carry) % Base>>

NTimes(a, k) == NNorm(NTimesC(a, k, 0))

\* a * 2^k
NShl(a, k) ==
    IF a = << >> THEN a
    ELSE NTimes(a, 2 ^ (k % LimbBits)) \o [i \in 1..(k \div LimbBits) |-> 0]

NFromInt(n) == NNorm(<<n \div (Base * Base), (n \div Base) % Base, n % Base>>)

\* long division of a by d < Base, given the remainder r carried in and the
\* quotient digits q found so far
RECURSIVE NDivStep(_, _, _, _)
NDivStep(a, d, r, q) ==
    IF a = << >> THEN [q |-> NNorm(q), r |-> r]
    ELSE NDivStep(Tail(a), d, (Base * r + Head(a)) % d,
                  Append(q, (Base * r + Head(a)) \div d))

\* quotient and remainder of a by d, 0 < d < Base
NDiv(a, d) == NDivStep(a, d, 0, << >>)

\* the number of bits of n, 0 <= n < Base
SmallBitLen(n) == CHOOSE k \in 0..LimbBits : n < 2 ^ k /\ (k = 0 \/ n >= 2 ^ (k - 1))

\* the number of bits of a
NBitLen(a) ==
    IF a = << >> THEN 0 ELSE LimbBits * (Len(a) - 1) + SmallBitLen(Head(a))

NOdd(a) == LowLimb(a) % 2 = 1

\* a \div 2^k, and whether bits were lost
NShr(a, k) ==
    LET limbs == k \div LimbBits
        kept == IF limbs >= Len(a) THEN << >> ELSE SubSeq(a, 1, Len(a) - limbs)
        lost == \E i \in (Len(a) - limbs + 1)..Len(a) : i >= 1 /\ a[i] # 0
        x == NDiv(kept, 2 ^ (k % LimbBits))
    IN  [q |-> x.q, sticky |-> lost \/ x.r # 0]

\* the number of 0 bits at the low end of a # 0
NTrailingZeros(a) ==
    LET i == CHOOSE j \in 1..Len(a) : a[j] # 0 /\ \A h \in (j + 1)..Len(a) : a[h] = 0
        z == CHOOSE k \in 0..LimbBits : a[i] % (2 ^ k) = 0 /\ a[i] % (2 ^ (k + 1)) # 0
    IN  LimbBits * (Len(a) - i) + z

(***************************************************************************)
(* Python floats (IEEE 754 binary64) in the range where neither overflow   *)
(* nor subnormals occur: [neg, m, e] is (-1)^neg * m * 2^e with m an odd   *)
(* natural of at most 53 bits, or m = 0 and e = 0.  Every operation rounds *)
(* the exact result to nearest, ties to even.                              *)
(***************************************************************************)
MantissaBits == 53
\* extra bits carried through a division before rounding
GuardBits == 64

Canon(neg, n, e) ==
    IF n = << >> THEN [neg |-> FALSE, m |-> << >>, e |-> 0]
    ELSE LET z == NTrailingZeros(n)
         IN  [neg |-> neg, m |-> NShr(n, z).q, e |-> e + z]

\* the float nearest to (-1)^neg * (n + t) * 2^e, where 0 < t < 1 if sticky
\* and t = 0 if not; a sticky n has more than MantissaBits + 1 bits
FRound(neg, n, e, sticky) ==
    LET len == NBitLen(n) IN
    IF len <= MantissaBits THEN Canon(neg, n, e)
    ELSE LET x == NShr(n, len - MantissaBits - 1)
             guard == NOdd(x.q)
             keep == NDiv(x.q, 2).q
             rest == sticky \/ x.sticky
             up == guard /\ (rest \/ NOdd(keep))
         IN  Canon(neg, IF up THEN NAdd(keep, <<1>>) ELSE keep,
                   e + (len - MantissaBits))

FZero == [neg |-> FALSE, m |-> << >>, e |-> 0]
FNeg(x) == IF x.m = << >> THEN x ELSE [x EXCEPT !.neg = ~@]

\* x + y
FAdd(x, y) ==
    LET e == Min(x.e, y.e)
        a == NShl(x.m, x.e - e)
        b == NShl(y.m, y.e - e)
    IN  IF x.neg = y.neg THEN FRound(x.neg, NAdd(a, b), e, FALSE)
        ELSE IF NLess(a, b) THEN FRound(y.neg, NSub(b, a), e, FALSE)
        ELSE FRound(x.neg, NSub(a, b), e, FALSE)

\* x - y
FSub(x, y) == FAdd(x, FNeg(y))

\* x / d for an int d in 1..10
FDivInt(x, d) ==
    LET x1 == NDiv(NShl(x.m, GuardBits), d)
    IN  FRound(x.neg, x1.q, x.e - GuardBits, x1.r # 0)

\* x > 0, x < 0
FPositive(x) == x.m # << >> /\ ~x.neg
FNegative(x) == x.m # << >> /\ x.neg

\* the value of a decimal digit
DigitValue(ch) == CHOOSE d \in 0..9 : Digits[d + 1] = ch

\* float(text) for a text of digits with at most one ".": the digits as an
\* integer, divided by 10 for each digit after the point, rounded once
RECURSIVE DecimalInt(_, _)
DecimalInt(text, acc) ==
    IF text = << >> THEN acc
    ELSE IF Head(text) = "." THEN DecimalInt(Tail(text), acc)
    ELSE DecimalInt(Tail(text), 10 * acc + DigitValue(Head(text)))

DecimalPlaces(text) ==
    IF \E i \in 1..Len(text) : text[i] = "."
    THEN Len(text) - (CHOOSE i \in 1..Len(text) : text[i] = ".")
    ELSE 0

RECURSIVE NDivTens(_, _, _)
NDivTens(a, places, sticky) ==
    IF places = 0 THEN [q |-> a, sticky |-> sticky]
    ELSE LET x == NDiv(a, 10)
         IN  NDivTens(x.q, places - 1, sticky \/ x.r # 0)

ParseFloat(text) ==
    LET x == NDivTens(NShl(NFromInt(DecimalInt(text, 0)), GuardBits),
                      DecimalPlaces(text), FALSE)
    IN  FRound(FALSE, x.q, -GuardBits, x.sticky)

(***************************************************************************)
(* Fixtures: the rows load_minute_bars yields.  Only ts, symbol and close  *)
(* are read by the engine.                                                 *)
(***************************************************************************)
Bar(ts, symbol, close) == [ts |-> ts, symbol |-> symbol, close |-> close]

\* two symbols; A oscillates, B is flat
FxTwo == << Bar(<<"1">>, <<"A">>, 1), Bar(<<"1">>, <<"B">>, 2),
            Bar(<<"2">>, <<"A">>, 3), Bar(<<"2">>, <<"B">>, 2) >>

\* symbols and timestamps that hold the separator of the order id
FxColon == << Bar(<<"C">>, <<"A", ":", "B">>, 1), Bar(<<"B", ":", "C">>, <<"A">>, 1) >>

\* one symbol falling by 1 each row
FxTrend == [i \in 1..TrendLen |-> Bar(IntStr(i), <<"A">>, 2 * TrendLen - i)]

\* a row whose symbol field is empty
FxBlank == << Bar(<<"1">>, << >>, 1), Bar(<<"1">>, <<"A">>, 2) >>

FxEmpty == << >>

\* a fixture file: whether it exists and parses, the rows load_minute_bars
\* yields from it, and its bytes (a tag standing for the content)
FixtureFile(status, rows, bytes) == [status |-> status, rows |-> rows, bytes |-> bytes]

FileTwo == FixtureFile("ok", FxTwo, <<"a", "1">>)
FileColon == FixtureFile("ok", FxColon, <<"b", "2">>)
FileTrend == FixtureFile("ok", FxTrend, <<"c", "3">>)
FileEmpty == FixtureFile("ok", FxEmpty, <<"d", "4">>)
FileBlank == FixtureFile("ok", FxBlank, <<"g", "8">>)
FileMalformed == FixtureFile("malformed", << >>, <<"e", "5">>)
FileMissing == FixtureFile("missing", << >>, << >>)

FixtureFiles ==
    {FileTwo, FileColon, FileTrend, FileBlank, FileEmpty, FileMalformed, FileMissing}

\* load_minute_bars succeeds
Loads(f) == f.status = "ok"

(***************************************************************************)
(* EngineConfig                                                            *)
(***************************************************************************)
Seeds == {7, 12}
MaxQueues == {-1, 0, 1, DefaultMaxQueue}
BurstConfigs == { [start_s |-> 8, len_s |-> 4, multiplier |-> 4],
                  [start_s |-> 0, len_s |-> 1, multiplier |-> 2],
                  [start_s |-> 1, len_s |-> 1, multiplier |-> 3],
                  [start_s |-> 0, len_s |-> 1, multiplier |-> -1] }

EngineConfig(seed, duration, max_queue, b) ==
    [seed |-> seed, duration_s |-> duration, max_queue |-> max_queue,
     burst_start_s |-> b.start_s, burst_len_s |-> b.len_s,
     burst_multiplier |-> b.multiplier]

EngineConfigs ==
    { EngineConfig(s, d, q, b) :
        s \in Seeds, d \in 0..MaxDuration, q \in MaxQueues, b \in BurstConfigs }

(***************************************************************************)
(* State                                                                   *)
(***************************************************************************)
VARIABLES
    cfg,        \* the EngineConfig of the engine being run
    fixture,    \* the fixture file cfg.fixtures names
    clock,      \* time.perf_counter_ns: its last reading and how it advances
    pc,         \* where Engine.run stands
    run,        \* the local variables of Engine.run
    eng,        \* the Engine's fields windows, sums, positions
    metrics,    \* the Engine's Metrics object
    payload,    \* what Metrics.to_payload returned, once called
    last,       \* history: the decision record of the event handled last
    hist,       \* history: what the run has done so far
    prior,      \* the counts an earlier run with the same configuration ended with
    fs,         \* the report directory and the package's code files
    cli         \* the command being executed and its local variables

engineVars == <<cfg, fixture, clock, pc, run, eng, metrics, payload, last, hist>>
outerVars == <<prior, fs, cli>>
vars == <<cfg, fixture, clock, pc, run, eng, metrics, payload, last, hist, prior, fs, cli>>

(***************************************************************************)
(* The clock.  A reading never goes back.  The first FreeReads readings    *)
(* each advance by 0 or 1 tick; after them the clock advances by one tick  *)
(* every period-th reading.                                                *)
(***************************************************************************)
Periods == {1, MidPeriod, LongPeriod}

NewClock(period) ==
    [now |-> ClockOrigin, free |-> FreeReads, phase |-> 0, period |-> period]

Read(c) ==
    IF c.free > 0
    THEN { [c EXCEPT !.free = @ - 1, !.now = @ + d * TickUs] : d \in {0, 1} }
    ELSE { [c EXCEPT !.phase = (@ + 1) % c.period,
                     !.now = IF c.phase = c.period - 1 THEN @ + TickUs ELSE @] }

(***************************************************************************)
(* _percentile.  pct is the percentile in hundredths (50 for 0.50) and the *)
(* result is 100 times the value the code returns, which keeps the         *)
(* interpolation in the integers: k = (n-1)*pct/100, the weights c - k and *)
(* k - f are multiples of 1/100.  For list lengths below 300 int(k) of the *)
(* float k is the floor of the exact k for each pct used.                  *)
(***************************************************************************)
PctScale == 100

\* Interpolate with the two weights exchanged
InterpolateSwapped(lo, hi, wlo, whi) == lo * whi + hi * wlo

\* d0 + d1, with d0 = values[f] * (c - k) and d1 = values[c] * (k - f)
Interpolate(lo, hi, wlo, whi) == lo * wlo + hi * whi

Percentile(values, pct) ==
    IF values = << >> THEN 0
    ELSE LET n == Len(values)
             k == (n - 1) * pct
             f == k \div PctScale
             c == Min(f + 1, n - 1)
         IN  IF f = c THEN PctScale * values[(k \div PctScale) + 1]
             ELSE Interpolate(values[f + 1], values[c + 1],
                              c * PctScale - k, k - f * PctScale)

(***************************************************************************)
(* Metrics                                                                 *)
(***************************************************************************)
NewMetrics ==
    [decision_ns |-> << >>, e2e_ns |-> << >>, drops_total |-> 0,
     queue_depth_max |-> 0, exposure_blocks_total |-> 0,
     exposure_block_reasons |-> EmptyDict,
     decision_ns_by_sym |-> EmptyDict, e2e_ns_by_sym |-> EmptyDict,
     processed_by_sym |-> EmptyDict, trades_by_sym |-> EmptyDict,
     exposure_blocks_by_sym |-> EmptyDict, last_reason_by_sym |-> EmptyDict,
     processed |-> 0, elapsed_ns |-> 0, queue_depth_series |-> << >>,
     burst_window |-> EmptyDict, idempotency_violations |-> 0]

\* an optional symbol argument: {} is None, {s} is the string s
NoSymbol == {}
Truthy(symOpt) == \E s \in symOpt : s # << >>
TheSymbol(symOpt) == CHOOSE s \in symOpt : TRUE

\* Sample without the per-symbol processed count
SampleUncounted(m, decision_ns, e2e_ns, symOpt) ==
    LET m1 == [m EXCEPT !.decision_ns = Append(@, decision_ns),
                        !.e2e_ns = Append(@, e2e_ns)]
    IN  IF Truthy(symOpt)
        THEN LET s == TheSymbol(symOpt) IN
             [m1 EXCEPT
                !.decision_ns_by_sym =
                    Put(@, s, Append(Get(@, s, << >>), decision_ns)),
                !.e2e_ns_by_sym = Put(@, s, Append(Get(@, s, << >>), e2e_ns))]
        ELSE m1

\* Metrics.sample
Sample(m, decision_ns, e2e_ns, symOpt) ==
    LET m1 == [m EXCEPT !.decision_ns = Append(@, decision_ns),
                        !.e2e_ns = Append(@, e2e_ns)]
    IN  IF Truthy(symOpt)
        THEN LET s == TheSymbol(symOpt) IN
             [m1 EXCEPT
                !.decision_ns_by_sym =
                    Put(@, s, Append(Get(@, s, << >>), decision_ns)),
                !.e2e_ns_by_sym = Put(@, s, Append(Get(@, s, << >>), e2e_ns)),
                !.processed_by_sym = Put(@, s, Get(@, s, 0) + 1)]
        ELSE m1

\* Drop on a counter that wraps
DropWrapping(m) == [m EXCEPT !.drops_total = (@ + 1) % 2]

\* Metrics.drop
Drop(m) == [m EXCEPT !.drops_total = @ + 1]

\* Metrics.exposure_block
ExposureBlock(m, reason, symOpt) ==
    LET m1 == [m EXCEPT !.exposure_blocks_total = @ + 1,
                        !.exposure_block_reasons = Put(@, reason, Get(@, reason, 0) + 1)]
    IN  IF Truthy(symOpt)
        THEN LET s == TheSymbol(symOpt) IN
             [m1 EXCEPT !.exposure_blocks_by_sym = Put(@, s, Get(@, s, 0) + 1),
                        !.last_reason_by_sym = Put(@, s, reason)]
        ELSE m1

\* Metrics.set_runtime (the psutil readings are not modelled)
SetRuntime(m, processed, queue_depth_max) ==
    [m EXCEPT !.processed = processed, !.queue_depth_max = queue_depth_max]

\* RecordQueueDepth without the eviction
RecordQueueDepthKeep(m, t_ns, depth, cap) ==
    [m EXCEPT !.queue_depth_series = Append(@, <<t_ns, depth>>)]

\* Metrics.record_queue_depth
RecordQueueDepth(m, t_ns, depth, cap) ==
    LET s == Append(m.queue_depth_series, <<t_ns, depth>>)
    IN  [m EXCEPT !.queue_depth_series = IF Len(s) > cap THEN Tail(s) ELSE s]

\* Metrics.set_elapsed
SetElapsed(m, elapsed_ns) == [m EXCEPT !.elapsed_ns = elapsed_ns]

\* round(num / den, 0) for num >= 0 and den > 0, ties to the even integer
RoundHalfEven(num, den) ==
    LET q == num \div den
        r == num % den
    IN  IF 2 * r > den \/ (2 * r = den /\ q % 2 = 1) THEN q + 1 ELSE q

\* lines 98-113 of to_payload: the latency histogram of the sorted decision
\* samples.  upper is max(p99, 1 ms) in the unit of Percentile; the index of
\* a sample v is min(bins - 1, int(ms / bin_width)), computed here on the
\* exact quotient v * bins / upper; an edge is (i + 1) * bin_width rounded to
\* 3 decimals of a millisecond, which is a whole number of microseconds.
Histogram(dec_sorted) ==
    IF dec_sorted = << >> THEN [bins_ms |-> << >>, counts |-> << >>]
    ELSE LET upper == Max(Percentile(dec_sorted, 99), PctScale * UsPerMs)
             BinOf(v) == Min(HistBins - 1, (v * PctScale * HistBins) \div upper)
         IN  [bins_ms |-> [i \in 1..HistBins |->
                            RoundHalfEven(i * upper, HistBins * PctScale)],
              counts |-> [i \in 1..HistBins |->
                            Cardinality({j \in 1..Len(dec_sorted) :
                                            BinOf(dec_sorted[j]) = i - 1})]]

\* Metrics.to_payload: the latency percentiles, the counters and the
\* per-symbol summary.  The latency figures are kept in the unit of
\* Percentile (hundredths of the unit of the samples); the division by 1e6
\* that turns them into milliseconds is the same for each and keeps order.
ToPayload(m) ==
    LET dec_sorted == Sorted(m.decision_ns)
        e2e_sorted == Sorted(m.e2e_ns)
    IN
    [latency |->
        [decision_ms |->
            [p50 |-> Percentile(dec_sorted, 50),
             p95 |-> Percentile(dec_sorted, 95),
             p99 |-> Percentile(dec_sorted, 99),
             max |-> IF dec_sorted # << >> THEN PctScale * SeqMax(dec_sorted) ELSE 0],
         e2e_ms |-> [p95 |-> Percentile(e2e_sorted, 95)],
         histogram |-> Histogram(dec_sorted)],
     reliability |->
        [drops |-> m.drops_total,
         idempotency_violations |-> 0,
         exposure_blocks |-> m.exposure_blocks_total,
         exposure_block_reasons |-> m.exposure_block_reasons],
     resources |->
        [queue_depth_max |-> m.queue_depth_max,
         queue_depth_series |-> m.queue_depth_series],
     burst_window |-> m.burst_window,
     processed |-> m.processed,
     elapsed_ns |-> m.elapsed_ns,
     per_symbol |->
        [s \in DOMAIN m.decision_ns_by_sym |->
            [processed |-> Get(m.processed_by_sym, s, 0),
             latency_p95 |-> Percentile(Sorted(m.decision_ns_by_sym[s]), 95),
             trades |-> Get(m.trades_by_sym, s, 0),
             exposure_blocks |-> Get(m.exposure_blocks_by_sym, s, 0),
             last_reason |-> Get(m.last_reason_by_sym, s, "-")]]]

(***************************************************************************)
(* Engine                                                                  *)
(***************************************************************************)
NewEngine == [windows |-> EmptyDict, sums |-> EmptyDict, positions |-> EmptyDict]

\* Engine._update_roll: the engine fields afterwards and the moving average
\* as the fraction ma_num / ma_den
UpdateRoll(e, sym, px) ==
    LET w  == Get(e.windows, sym, << >>)
        s0 == Get(e.sums, sym, 0)
        full == Len(w) = WindowMaxLen
        s1 == IF full THEN s0 - w[1] ELSE s0
        w1 == IF full THEN Append(Tail(w), px) ELSE Append(w, px)
        s2 == s1 + px
    IN  [eng |-> [e EXCEPT !.windows = Put(@, sym, w1), !.sums = Put(@, sym, s2)],
         ma_num |-> s2, ma_den |-> Len(w1)]

\* DiffSign without the cold-start test on the window length
DiffSignWarm(close, ma_num, ma_den, wlen) ==
    IF close * ma_den > ma_num THEN 1
    ELSE IF close * ma_den < ma_num THEN -1 ELSE 0

\* the sign of diff = close - ma if len(window) >= 5 else 0.0
DiffSign(close, ma_num, ma_den, wlen) ==
    IF wlen >= MinWindow
    THEN (IF close * ma_den > ma_num THEN 1
          ELSE IF close * ma_den < ma_num THEN -1 ELSE 0)
    ELSE 0

\* signal = -1.0 if diff > 0 else (1.0 if diff < 0 else 0.0)
Signal(diff) == IF diff > 0 THEN -1 ELSE IF diff < 0 THEN 1 ELSE 0

\* RiskGate rejecting at the cap itself
RiskGateInclusive(positions, sym, notional) ==
    LET cap == (NAV * PerAssetCapPct) \div 100
    IN  IF Abs(Get(positions, sym, 0) + notional) >= cap
        THEN [ok |-> FALSE, reason |-> "EXPOSURE_CAP"]
        ELSE [ok |-> TRUE, reason |-> "OK"]

\* Engine._update_roll on float closes: the engine fields afterwards and the
\* moving average ma = sums[sym] / len(w)
UpdateRollFloat(e, sym, px) ==
    LET w  == Get(e.windows, sym, << >>)
        s0 == Get(e.sums, sym, FZero)
        full == Len(w) = WindowMaxLen
        s1 == IF full THEN FSub(s0, w[1]) ELSE s0
        w1 == IF full THEN Append(Tail(w), px) ELSE Append(w, px)
        s2 == FAdd(s1, px)
    IN  [eng |-> [e EXCEPT !.windows = Put(@, sym, w1), !.sums = Put(@, sym, s2)],
         ma |-> FDivInt(s2, Len(w1))]

\* diff = evt.close - ma if len(window) >= 5 else 0.0
DiffFloat(close, ma, wlen) == IF wlen >= MinWindow THEN FSub(close, ma) ELSE FZero

\* signal = -1.0 if diff > 0 else (1.0 if diff < 0 else 0.0), diff a float
SignalFloat(diff) == IF FPositive(diff) THEN -1 ELSE IF FNegative(diff) THEN 1 ELSE 0

\* Engine._risk_gate.  nav * per_asset_cap is 50000.0 exactly in float64.
RiskGate(positions, sym, notional) ==
    LET cap == (NAV * PerAssetCapPct) \div 100
    IN  IF Abs(Get(positions, sym, 0) + notional) > cap
        THEN [ok |-> FALSE, reason |-> "EXPOSURE_CAP"]
        ELSE [ok |-> TRUE, reason |-> "OK"]

\* the deterministic order id: sha256(f"{seed}:{symbol}:{ts}:{int(signal)}")[:16]
OrderId(seed, evt, signal) ==
    Sha256Hex(IntStr(seed) \o <<":">> \o evt.symbol \o <<":">> \o evt.ts
              \o <<":">> \o IntStr(signal))

\* QueueFull with a strict comparison
QueueFullStrict(qdepth, max_queue) == qdepth > max_queue

\* the backpressure test of the bounded queue
QueueFull(qdepth, max_queue) == qdepth >= max_queue

\* PositionsAfter with the update outside the else branch: the position
\* changes whatever the gate answered
PositionsAlways(positions, sym, notional, ok) ==
    Put(positions, sym, Get(positions, sym, 0) + notional)

\* positions after the gate has answered ok for notional on sym
\* (reading positions[sym] in the gate creates the key: it is a defaultdict)
PositionsAfter(positions, sym, notional, ok) ==
    LET p == Put(positions, sym, Get(positions, sym, 0))
    IN  IF ok THEN Put(p, sym, p[sym] + notional) ELSE p

\* trades_by_sym after an accepted or rejected decision
TradesAfter(trades, sym, signal, ok) ==
    IF ok /\ signal # 0 THEN Put(trades, sym, Get(trades, sym, 0) + 1) ELSE trades

(***************************************************************************)
(* Engine.run                                                              *)
(***************************************************************************)
\* an optional int: {} is None
None == {}
Some(x) == {x}
\* the truth value Python gives an optional int
TruthyInt(opt) == \E x \in opt : x # 0
Val(opt) == CHOOSE x \in opt : TRUE

NewRun ==
    [events |-> << >>, start |-> 0, end_time |-> 0, idx |-> 0, qdepth |-> 0,
     processed |-> 0, first_processed_ns |-> None, last_processed_ns |-> None,
     seen_order_ids |-> {}, next_sample_ns |-> 0, left |-> 0]

NoDecision ==
    [kind |-> "none", symbol |-> << >>, ts |-> << >>, signal |-> 0, notional |-> 0,
     oid |-> << >>, ok |-> TRUE, reason |-> "OK", dup |-> FALSE, nth |-> 0,
     pos_before |-> 0, new_triple |-> FALSE, evt |-> Bar(<< >>, << >>, 0)]

\* (hist.ntaken counts the events taken, hist.late those taken after a
\* reading of the clock had reached end_time, hist.qpeak is the largest
\* queue depth held while an event was handled, hist.decisions lists the
\* processed decisions as <<symbol, ts, signal, order id, gate outcome,
\* duplicate>> and hist.before those of the earlier run)
\* history of the outer tick in progress: how many ticks began, the elapsed
\* times read for the two comparisons of the burst window (the second is not
\* read when the first comparison fails) and the events taken since
NoTick == [n |-> 0, lo |-> 0, hi |-> None, taken |-> 0]

NewHist ==
    [triples |-> {}, accepted |-> 0, rejected |-> 0, nth |-> EmptyDict,
     error |-> "none", points |-> << >>, traded |-> EmptyDict, tick |-> NoTick,
     closes |-> EmptyDict, ntaken |-> 0, late |-> 0, qpeak |-> 0,
     decisions |-> << >>, before |-> << >>]

\* Engine.__init__ for one configuration, fixture file and clock
Construct(c, f, period) ==
    /\ cfg = c
    /\ fixture = f
    /\ clock = NewClock(period)
    /\ pc = "ready"
    /\ run = NewRun
    /\ eng = NewEngine
    /\ metrics = NewMetrics
    /\ payload = None
    /\ last = NoDecision
    /\ hist = NewHist

\* line 58: the fixture cannot be opened or parsed; the exception leaves run
LoadFails ==
    /\ pc = "ready"
    /\ ~Loads(fixture)
    /\ pc' = "failed"
    /\ hist' = [hist EXCEPT !.error = IF fixture.status = "missing"
                                      THEN "FileNotFoundError" ELSE "ValueError"]
    /\ UNCHANGED <<cfg, fixture, clock, run, eng, metrics, payload, last>>
    /\ UNCHANGED outerVars

\* lines 58-77
RunStart ==
    /\ pc = "ready"
    /\ Loads(fixture)
    /\ \E c \in Read(clock) :
        /\ clock' = c
        /\ run' = [NewRun EXCEPT
                    !.events = fixture.rows,
                    !.start = c.now,
                    !.end_time = c.now + cfg.duration_s * UsPerSecond,
                    !.next_sample_ns = c.now + SampleIntervalUs]
    /\ metrics' = [metrics EXCEPT !.burst_window =
                    [start_s |-> cfg.burst_start_s,
                     end_s |-> cfg.burst_start_s + cfg.burst_len_s]]
    /\ pc' = "while"
    /\ UNCHANGED <<cfg, fixture, eng, payload, last, hist>>
    /\ UNCHANGED outerVars

\* range(multiplier) is entered with m iterations to go
EnterFor(c, m, lo, hi) ==
    /\ clock' = c
    /\ run' = [run EXCEPT !.left = IF m > 0 THEN m ELSE 0]
    /\ pc' = IF m > 0 THEN "for" ELSE "while"
    /\ hist' = [hist EXCEPT !.tick = [n |-> @.n + 1, lo |-> lo, hi |-> hi, taken |-> 0]]

\* line 82: (now - start) / 1e9 >= burst_start_s
BurstBegun(elapsed, c) == elapsed >= c.burst_start_s * UsPerSecond

\* BurstOpen with the end of the window included
BurstOpenInclusive(elapsed, c) ==
    elapsed <= (c.burst_start_s + c.burst_len_s) * UsPerSecond

\* line 83: (now - start) / 1e9 < burst_start_s + burst_len_s
BurstOpen(elapsed, c) == elapsed < (c.burst_start_s + c.burst_len_s) * UsPerSecond

\* LoopGoesOn with the end of the run included
LoopGoesOnInclusive(now, end_time) == now <= end_time

\* line 79: while time.perf_counter_ns() < end_time
LoopGoesOn(now, end_time) == now < end_time

\* lines 79-84: the loop condition holds; the multiplier of this tick is
\* computed from two further clock readings (the second only if the first
\* comparison holds)
LoopTick ==
    /\ pc = "while"
    /\ \E c1 \in Read(clock) :
        /\ LoopGoesOn(c1.now, run.end_time)
        /\ \E c2 \in Read(c1) :
            IF BurstBegun(c2.now - run.start, cfg)
            THEN \E c3 \in Read(c2) :
                    IF BurstOpen(c3.now - run.start, cfg)
                    THEN EnterFor(c3, cfg.burst_multiplier, c2.now - run.start,
                                  Some(c3.now - run.start))
                    ELSE EnterFor(c3, 1, c2.now - run.start, Some(c3.now - run.start))
            ELSE EnterFor(c2, 1, c2.now - run.start, None)
    /\ UNCHANGED <<cfg, fixture, eng, metrics, payload, last>>
    /\ UNCHANGED outerVars

\* line 79: the loop condition fails
LoopExit ==
    /\ pc = "while"
    /\ \E c1 \in Read(clock) :
        /\ ~LoopGoesOn(c1.now, run.end_time)
        /\ clock' = c1
    /\ pc' = "finalize"
    /\ UNCHANGED <<cfg, fixture, run, eng, metrics, payload, last, hist>>
    /\ UNCHANGED outerVars

AfterEvent(left) == IF left - 1 > 0 THEN "for" ELSE "while"

\* line 87 on an empty event list: idx % 0 raises ZeroDivisionError
TakeFails ==
    /\ pc = "for"
    /\ Len(run.events) = 0
    /\ pc' = "failed"
    /\ hist' = [hist EXCEPT !.error = "ZeroDivisionError"]
    /\ UNCHANGED <<cfg, fixture, clock, run, eng, metrics, payload, last>>
    /\ UNCHANGED outerVars

\* NextEvent without the wrap: the last row is taken again and again
NextEventClamped(events, idx) == events[Min(idx, Len(events) - 1) + 1]

\* line 87: evt = events[idx % len(events)]
NextEvent(events, idx) == events[(idx % Len(events)) + 1]

\* lines 87-93: the event is taken and dropped
DropEvent ==
    /\ pc = "for"
    /\ Len(run.events) > 0
    /\ QueueFull(run.qdepth, cfg.max_queue)
    /\ run' = [run EXCEPT !.idx = @ + 1, !.left = @ - 1]
    /\ metrics' = Drop(metrics)
    /\ pc' = AfterEvent(run.left)
    /\ last' = [NoDecision EXCEPT !.kind = "drop",
                                   !.evt = NextEvent(run.events, run.idx)]
    /\ hist' = [hist EXCEPT !.tick.taken = @ + 1, !.ntaken = @ + 1,
                            !.late = IF clock.now >= run.end_time THEN @ + 1 ELSE @]
    /\ UNCHANGED <<cfg, fixture, clock, eng, payload>>
    /\ UNCHANGED outerVars

\* Dequeue without the decrement
DequeueKeep(qdepth) == qdepth

\* line 137: qdepth = max(0, qdepth - 1)
Dequeue(qdepth) == Max(0, qdepth - 1)

\* lines 87-144: the event is taken and processed
ProcessEvent ==
    /\ pc = "for"
    /\ Len(run.events) > 0
    /\ ~QueueFull(run.qdepth, cfg.max_queue)
    /\ \E c0 \in Read(clock) : \E c1 \in Read(c0) : \E c2 \in Read(c1) :
        LET evt == NextEvent(run.events, run.idx)
            sym == evt.symbol
            qd1 == run.qdepth + 1
            t0 == c0.now
            roll == UpdateRoll(eng, sym, evt.close)
            diff == DiffSign(evt.close, roll.ma_num, roll.ma_den,
                             Len(roll.eng.windows[sym]))
            signal == Signal(diff)
            notional == UnitNotional * signal
            gate == RiskGate(roll.eng.positions, sym, notional)
            oid == OrderId(cfg.seed, evt, signal)
            dup == oid \in run.seen_order_ids
            m1 == IF dup THEN [metrics EXCEPT !.idempotency_violations = @ + 1]
                  ELSE metrics
            m2 == IF ~gate.ok
                  THEN ExposureBlock(ExposureBlock(m1, gate.reason, NoSymbol),
                                     gate.reason, {sym})
                  ELSE [m1 EXCEPT !.trades_by_sym = TradesAfter(@, sym, signal, TRUE)]
            t1 == c1.now
            m3 == Sample(m2, t1 - t0, t1 - t0, {sym})
            qd2 == Dequeue(qd1)
            now_ns == c2.now
            due == now_ns >= run.next_sample_ns
            m4 == IF due THEN RecordQueueDepth(m3, now_ns - run.start, qd2, QueueSeriesCap)
                  ELSE m3
            triple == <<sym, evt.ts, signal>>
        IN  /\ clock' = c2
            /\ eng' = [roll.eng EXCEPT
                        !.positions = PositionsAfter(@, sym, notional, gate.ok)]
            /\ metrics' = m4
            /\ run' = [run EXCEPT
                        !.idx = @ + 1,
                        !.left = @ - 1,
                        !.qdepth = qd2,
                        !.seen_order_ids = @ \cup {oid},
                        !.processed = @ + 1,
                        !.first_processed_ns = IF @ = None THEN Some(t1) ELSE @,
                        !.last_processed_ns = Some(t1),
                        !.next_sample_ns = IF due THEN @ + SampleIntervalUs ELSE @]
            /\ last' = [kind |-> "decision", symbol |-> sym, ts |-> evt.ts,
                        signal |-> signal, notional |-> notional, oid |-> oid,
                        ok |-> gate.ok, reason |-> gate.reason, dup |-> dup,
                        nth |-> Get(hist.nth, sym, 0) + 1,
                        pos_before |-> Get(eng.positions, sym, 0),
                        new_triple |-> triple \notin hist.triples,
                        evt |-> evt]
            /\ hist' = [hist EXCEPT
                        !.triples = @ \cup {triple},
                        !.accepted = IF gate.ok THEN @ + 1 ELSE @,
                        !.rejected = IF gate.ok THEN @ ELSE @ + 1,
                        !.nth = Put(@, sym, Get(@, sym, 0) + 1),
                        !.points = IF due THEN Append(@, <<now_ns - run.start, qd2>>)
                                   ELSE @,
                        !.traded = IF gate.ok /\ signal # 0
                                   THEN Put(@, sym, Get(@, sym, 0) + 1) ELSE @,
                        !.qpeak = Max(@, qd1),
                        !.decisions = Append(@, <<sym, evt.ts, signal, oid, gate.ok, dup>>),
                        !.tick.taken = @ + 1,
                        !.ntaken = @ + 1,
                        !.late = IF clock.now >= run.end_time THEN @ + 1 ELSE @]
    /\ pc' = AfterEvent(run.left)
    /\ UNCHANGED <<cfg, fixture, payload>>
    /\ UNCHANGED outerVars

\* lines 145-151
Finalize ==
    /\ pc = "finalize"
    /\ LET timed == /\ TruthyInt(run.first_processed_ns)
                    /\ TruthyInt(run.last_processed_ns)
                    /\ Val(run.last_processed_ns) >= Val(run.first_processed_ns)
           m1 == IF timed
                 THEN SetElapsed(metrics, Val(run.last_processed_ns)
                                            - Val(run.first_processed_ns))
                 ELSE metrics
       IN  metrics' = SetRuntime(m1, run.processed, cfg.max_queue)
    /\ pc' = "done"
    /\ UNCHANGED <<cfg, fixture, clock, run, eng, payload, last, hist>>
    /\ UNCHANGED outerVars

\* the caller asks the returned Metrics for its payload
CallToPayload ==
    /\ pc = "done"
    /\ payload' = Some(ToPayload(metrics))
    /\ pc' = "reported"
    /\ UNCHANGED <<cfg, fixture, clock, run, eng, metrics, last, hist>>
    /\ UNCHANGED outerVars

EngineStep ==
    \/ LoadFails
    \/ RunStart
    \/ LoopTick
    \/ LoopExit
    \/ TakeFails
    \/ DropEvent
    \/ ProcessEvent
    \/ Finalize
    \/ CallToPayload

(***************************************************************************)
(* The command line: fingerprints, save_baseline_impl, baseline_check_impl *)
(***************************************************************************)
\* bounds of the command-line model
MaxCommands == 2
MaxEdits == 1
MaxProcessed == 1

\* the durations given to baseline-check: none, and the option's default
CliDurations == {0, 10}

CodeV1 == <<"f", "6">>
CodeV2 == <<"0", "7">>
CodeVersions == {CodeV1, CodeV2}

\* util/hashing.py hash_file: the digest of the file's bytes
HashFile(f) == Sha256Hex(f.bytes)

\* util/hashing.py hash_code: the digest of the package's files
HashCode(code) == Sha256Hex(code)

\* the three parts of a fingerprint joined by ":"
Fingerprint(seed, fixture_hash, code_hash) ==
    IntStr(seed) \o <<":">> \o fixture_hash \o <<":">> \o code_hash

\* payload["fixture_hash"] in _write_metrics
FixtureHash(f) == IF f.status # "missing" THEN HashFile(f) ELSE <<"n", "/", "a">>

\* what save_baseline_impl writes to baseline.txt
BaselineText(seed, f, code) ==
    Fingerprint(seed, HashFile(f), HashCode(code)) \o <<"\n">>

\* ReadBaseline without the strip()
ReadBaselineRaw(text) == text

\* baseline = basef.read_text().strip()
ReadBaseline(text) == Strip(text)

\* AllMatch with any() in place of all()
AnyMatch(fprints, baseline) == \E k \in 1..Len(fprints) : fprints[k] = baseline

\* ok = all(fp == baseline for fp in fprints)
AllMatch(fprints, baseline) == \A k \in 1..Len(fprints) : fprints[k] = baseline

\* if not basef.exists(): raise FileNotFoundError
BaselineMissing(files) == files.baseline = None

\* a baseline file left by an earlier session, written for another fixture
StaleBaseline == <<"7", ":", "#", "z", "9", ":", "#", "f", "6", "\n">>

NoFiles(baseline) ==
    [baseline |-> baseline, code |-> CodeV1,
     run_dirs |-> EmptyDict, determinism_result |-> None]

\* the command's local variables; ncmds, edits and saved are history: the
\* commands started, the edits of fixture and code so far, and the seed and
\* edit count of the last baseline-save
IdleCli ==
    [cmd |-> "none", pc |-> "idle", seed |-> 0, duration |-> 0, baseline |-> << >>,
     i |-> 0, fprints |-> << >>, run_payloads |-> << >>, metrics |-> None,
     summary |-> None, last_payload |-> None, error |-> "none", exit |-> None,
     ncmds |-> 0, edits |-> 0, saved |-> None]

\* the outcomes of Engine(cfg).run() for run_engine_once's configuration: the
\* exception it raises, or the processed count of the Metrics it returns.
\* With duration 0 the loop is never entered.
EngineOutcomes(f, duration) ==
    IF f.status = "missing" THEN { [raises |-> "FileNotFoundError", processed |-> 0] }
    ELSE IF f.status # "ok" THEN { [raises |-> "ValueError", processed |-> 0] }
    ELSE IF duration = 0 THEN { [raises |-> "none", processed |-> 0] }
    ELSE IF f.rows = << >>
    THEN { [raises |-> "ZeroDivisionError", processed |-> 0],
           [raises |-> "none", processed |-> 0] }
    ELSE { [raises |-> "none", processed |-> n] : n \in 0..MaxProcessed }

\* ExitOfCheck without the except clause: every exception ends the process with 1
ExitUncaught(error) == 1

\* the exit code of baseline-check when baseline_check_impl raised: the
\* command catches FileNotFoundError and exits with 2; any other exception
\* ends the process with 1
ExitOfCheck(error) == IF error = "FileNotFoundError" THEN 2 ELSE 1

CanStart == cli.pc \in {"idle", "returned", "raised"} /\ cli.ncmds < MaxCommands

StartCommand(name, seed, duration) ==
    [IdleCli EXCEPT !.cmd = name, !.seed = seed, !.duration = duration,
                    !.ncmds = cli.ncmds + 1, !.edits = cli.edits,
                    !.saved = cli.saved]

\* the baseline-save command: save_baseline_impl raises on a missing fixture
BaselineSaveFails ==
    /\ CanStart
    /\ fixture.status = "missing"
    /\ \E seed \in Seeds :
        cli' = [StartCommand("baseline-save", seed, 0) EXCEPT
                  !.pc = "raised", !.error = "FileNotFoundError", !.exit = Some(1)]
    /\ UNCHANGED <<fixture, fs, prior, cfg, clock, pc, run, eng, metrics, payload,
                   last, hist>>

\* the baseline-save command: save_baseline_impl
BaselineSave ==
    /\ CanStart
    /\ fixture.status # "missing"
    /\ \E seed \in Seeds :
        /\ fs' = [fs EXCEPT !.baseline = Some(BaselineText(seed, fixture, fs.code))]
        /\ cli' = [StartCommand("baseline-save", seed, 0) EXCEPT
                    !.pc = "returned", !.exit = Some(0),
                    !.saved = Some([seed |-> seed, edits |-> cli.edits])]
    /\ UNCHANGED <<fixture, prior, cfg, clock, pc, run, eng, metrics, payload,
                   last, hist>>

\* baseline-check, lines 148-151 and 285-287: no baseline file
CheckNoBaseline ==
    /\ CanStart
    /\ BaselineMissing(fs)
    /\ \E seed \in Seeds, duration \in CliDurations :
        cli' = [StartCommand("baseline-check", seed, duration) EXCEPT
                  !.pc = "raised", !.error = "FileNotFoundError",
                  !.exit = Some(ExitOfCheck("FileNotFoundError"))]
    /\ UNCHANGED <<fixture, fs, prior, cfg, clock, pc, run, eng, metrics, payload,
                   last, hist>>

\* baseline-check, lines 148-157: the baseline is read
CheckStart ==
    /\ CanStart
    /\ ~BaselineMissing(fs)
    /\ \E seed \in Seeds, duration \in CliDurations :
        cli' = [StartCommand("baseline-check", seed, duration) EXCEPT
                  !.pc = "engine", !.i = 1,
                  !.baseline = ReadBaseline(Val(fs.baseline))]
    /\ UNCHANGED <<fixture, fs, prior, cfg, clock, pc, run, eng, metrics, payload,
                   last, hist>>

\* the latency the command-line model gives every processed event: one tick
\* of the clock (the command copies latencies, it does not compute with them)
ShownLatency == TickUs

\* metrics.decision_ns_by_sym of a run that processed the first n events of
\* the rows: a sample for each event whose symbol is not the empty string
SamplesBySym(rows, n) ==
    LET SymAt(k) == NextEvent(rows, k).symbol
        syms == {SymAt(k) : k \in 0..(n - 1)} \ {<< >>}
    IN  [s \in syms |->
            [j \in 1..Cardinality({k \in 0..(n - 1) : SymAt(k) = s}) |-> ShownLatency]]

\* run_engine_once, lines 118-120: the engine raises; the exception leaves
\* baseline_check_impl
CheckRunFails ==
    /\ cli.pc = "engine"
    /\ \E o \in EngineOutcomes(fixture, cli.duration) :
        /\ o.raises # "none"
        /\ cli' = [cli EXCEPT !.pc = "raised", !.error = o.raises,
                              !.exit = Some(ExitOfCheck(o.raises))]
    /\ UNCHANGED <<fixture, fs, prior, cfg, clock, pc, run, eng, metrics, payload,
                   last, hist>>

\* run_engine_once, lines 118-120: the engine returns its Metrics, of which
\* the model keeps the processed count and the per-symbol samples
CheckRunEngine ==
    /\ cli.pc = "engine"
    /\ \E o \in EngineOutcomes(fixture, cli.duration) :
        /\ o.raises = "none"
        /\ cli' = [cli EXCEPT
                    !.pc = "write",
                    !.metrics = Some([processed |-> o.processed,
                                      decision_ns_by_sym |->
                                        SamplesBySym(fixture.rows, o.processed)])]
    /\ UNCHANGED <<fixture, fs, prior, cfg, clock, pc, run, eng, metrics, payload,
                   last, hist>>

\* PayloadAtWrite with the processed count entering the fixture hash
PayloadAtWriteCounted(by_sym, processed, seed, f, code) ==
    [processed |-> processed,
     per_symbol |-> [s \in DOMAIN by_sym |-> [processed |-> Len(by_sym[s])]],
     seed |-> seed,
     fixture_hash |-> FixtureHash(f) \o IntStr(processed),
     code_hash |-> HashCode(code),
     determinism_ok |-> FALSE]

\* lines 23-28 of _write_metrics: of what to_payload returns the payload
\* keeps the processed count and the per-symbol processed counts
PayloadAtWrite(by_sym, processed, seed, f, code) ==
    [processed |-> processed,
     per_symbol |-> [s \in DOMAIN by_sym |-> [processed |-> Len(by_sym[s])]],
     seed |-> seed,
     fixture_hash |-> FixtureHash(f),
     code_hash |-> HashCode(code),
     determinism_ok |-> FALSE]

\* a dict with the key "samples_ms" set
WithSamples(info, samples) ==
    [k \in (DOMAIN info) \cup {"samples_ms"} |->
        IF k = "samples_ms" THEN samples ELSE info[k]]

\* hash(sym) of a str: Python salts it with a value drawn when the process
\* starts (PYTHONHASHSEED), so it is a function of the string and of the
\* salt of the process.  The digest is represented by a number that tells
\* the salts and the strings drawn apart.
HashSalts == {0, 1, 2}
StrHash(sym, salt) == 1000 * salt + 10 * Len(sym) + (IF sym = <<"A">> THEN 1 ELSE 0)

\* random.Random(x) and its t-th call (t from 0), randrange(bound): the
\* generator is represented by a function of its seed, the number of the
\* call and the bound, with values in 0..bound-1.  The numbers are not those
\* of Python's generator; what they depend on is.
RandRange(x, t, bound) == ((x + 3) * (x + 3) * (t + 5) + 7 * t + x) % bound

\* the reservoir of lines 69-78 over the list ms with the generator seeded
\* by x: the first k samples fill res; the sample at index i >= k (from 0)
\* draws j = randrange(i + 1) and replaces res[j] if j < k.  Position p ends
\* with the last sample that drew it, or with its own.
Reservoir(ms, k, x) ==
    [p \in 1..Min(Len(ms), k) |->
        LET hits == {i \in k..(Len(ms) - 1) : RandRange(x, i - k, i + 1) = p - 1}
        IN  IF hits = {} THEN ms[p]
            ELSE ms[(CHOOSE i \in hits : \A h \in hits : h <= i) + 1]]

\* lines 61-78: per_sym_samples, for the run seed and the salt of the process
PerSymSamples(by_sym, seed, salt) ==
    [s \in DOMAIN by_sym |->
        IF by_sym[s] = << >> THEN << >>
        ELSE Reservoir(by_sym[s], ReservoirSize, seed + StrHash(s, salt))]

\* lines 57-84 of _write_metrics: the per-symbol samples are attached to the
\* payload object, after metrics.json has been written
AttachSamples(pl, samples) ==
    [pl EXCEPT !.per_symbol =
        [s \in (DOMAIN @) \cup (DOMAIN samples) |->
            IF s \in DOMAIN samples
            THEN WithSamples(IF s \in DOMAIN @ THEN @[s] ELSE [k \in {} |-> 0],
                             samples[s])
            ELSE @[s]]]

\* _write_metrics for run_i, then lines 162-165 of baseline_check_impl
CheckWriteMetrics ==
    /\ cli.pc = "write"
    /\ \E salt \in HashSalts :
       LET by_sym == Val(cli.metrics).decision_ns_by_sym
           written == PayloadAtWrite(by_sym, Val(cli.metrics).processed, cli.seed,
                                     fixture, fs.code)
           pl == AttachSamples(written, PerSymSamples(by_sym, cli.seed, salt))
           fp == Fingerprint(cli.seed, pl.fixture_hash, pl.code_hash)
       IN  /\ fs' = [fs EXCEPT !.run_dirs =
                        Put(@, cli.i, [metrics_json |-> written,
                                       run_fingerprint |-> fp \o <<"\n">>])]
           /\ cli' = [cli EXCEPT
                        !.run_payloads = Append(@, pl),
                        !.fprints = Append(@, fp),
                        !.metrics = None,
                        !.i = @ + 1,
                        !.pc = IF cli.i + 1 > CheckRuns THEN "finish" ELSE "engine"]
    /\ UNCHANGED <<fixture, prior, cfg, clock, pc, run, eng, metrics, payload,
                   last, hist>>

\* LastPayload without the patch of line 175
LastPayloadUnpatched(run_payloads, ok) == run_payloads[Len(run_payloads)]

\* lines 171-175: a copy of the last run's payload with determinism_ok set;
\* the key is set on the copy, the payload in run_payloads keeps its own
LastPayload(run_payloads, ok) ==
    [run_payloads[Len(run_payloads)] EXCEPT !.determinism_ok = ok]

\* baseline_check_impl, lines 167-181
CheckFinish ==
    /\ cli.pc = "finish"
    /\ LET ok == AllMatch(cli.fprints, cli.baseline)
           summary == [baseline |-> cli.baseline, fingerprints |-> cli.fprints,
                       pass |-> ok]
           n == Len(cli.run_payloads)
           last_payload == LastPayload(cli.run_payloads, ok)
       IN  /\ fs' = [fs EXCEPT
                        !.determinism_result = Some(summary),
                        !.run_dirs = Put(@, n, [@[n] EXCEPT !.metrics_json = last_payload])]
           /\ cli' = [cli EXCEPT !.pc = "returned", !.summary = Some(summary),
                                 !.last_payload = Some(last_payload),
                                 !.exit = Some(0)]
    /\ UNCHANGED <<fixture, prior, cfg, clock, pc, run, eng, metrics, payload,
                   last, hist>>

\* the environment replaces the fixture file
EditFixture ==
    /\ cli.edits < MaxEdits
    /\ \E f \in {FileTwo, FileEmpty, FileMalformed, FileMissing} \ {fixture} :
        fixture' = f
    /\ cli' = [cli EXCEPT !.edits = @ + 1]
    /\ UNCHANGED <<fs, prior, cfg, clock, pc, run, eng, metrics, payload, last, hist>>

\* the environment changes a file of the package
EditCode ==
    /\ cli.edits < MaxEdits
    /\ \E c \in CodeVersions \ {fs.code} : fs' = [fs EXCEPT !.code = c]
    /\ cli' = [cli EXCEPT !.edits = @ + 1]
    /\ UNCHANGED <<fixture, prior, cfg, clock, pc, run, eng, metrics, payload,
                   last, hist>>

(***************************************************************************)
(* A second run with the configuration of the first                        *)
(***************************************************************************)
PairPeriods == {1, MidPeriod}

\* the counts a run ends with
Counts(m) ==
    [processed |-> m.processed, drops |-> m.drops_total,
     exposure_blocks_total |-> m.exposure_blocks_total,
     trades_by_sym |-> m.trades_by_sym]

\* RunAgain on the Engine object of the first run instead of a new one
RunAgainSameEngine ==
    /\ pc = "done"
    /\ prior = None
    /\ prior' = Some(Counts(metrics))
    /\ \E p \in PairPeriods \cup {clock.period} : clock' = NewClock(p)
    /\ pc' = "ready"
    /\ run' = NewRun
    /\ eng' = eng
    /\ metrics' = NewMetrics
    /\ payload' = None
    /\ last' = NoDecision
    /\ hist' = [NewHist EXCEPT !.before = hist.decisions]
    /\ UNCHANGED <<cfg, fixture, fs, cli>>

\* Engine(cfg).run() once more, as baseline_check_impl's loop does
RunAgain ==
    /\ pc = "done"
    /\ prior = None
    /\ prior' = Some(Counts(metrics))
    /\ \E p \in PairPeriods \cup {clock.period} : clock' = NewClock(p)
    /\ pc' = "ready"
    /\ run' = NewRun
    /\ eng' = NewEngine
    /\ metrics' = NewMetrics
    /\ payload' = None
    /\ last' = NoDecision
    /\ hist' = [NewHist EXCEPT !.before = hist.decisions]
    /\ UNCHANGED <<cfg, fixture, fs, cli>>

(***************************************************************************)
(* Specifications                                                          *)
(***************************************************************************)
DefaultConfig ==
    EngineConfig(7, 0, DefaultMaxQueue, [start_s |-> 8, len_s |-> 4, multiplier |-> 4])

\* one run of an engine, for every configuration, fixture and clock drawn
Init ==
    /\ \E c \in EngineConfigs, f \in FixtureFiles, p \in Periods : Construct(c, f, p)
    /\ prior = None
    /\ fs = NoFiles(None)
    /\ cli = IdleCli

Next == EngineStep

Spec == Init /\ [][Next]_vars

\* Engine.run alone, from its call to its return or exception, under a
\* clock that advances at every reading or at every MidPeriod-th.  The run
\* goes on as long as a step is possible: the loop is busy-driven and no
\* step of it waits for anything.
InitFair ==
    /\ \E c \in EngineConfigs, f \in FixtureFiles, p \in PairPeriods : Construct(c, f, p)
    /\ prior = None
    /\ fs = NoFiles(None)
    /\ cli = IdleCli

NextRun ==
    \/ LoadFails
    \/ RunStart
    \/ LoopTick
    \/ LoopExit
    \/ TakeFails
    \/ DropEvent
    \/ ProcessEvent
    \/ Finalize

SpecFair == InitFair /\ [][NextRun]_vars /\ WF_vars(NextRun)

\* two runs of one configuration on one fixture, each with its own clock;
\* under the slow clock, the two-second run of the trending fixture, long
\* enough for its position to reach the cap
InitPair ==
    /\ \/ \E c \in EngineConfigs, f \in FixtureFiles, p \in PairPeriods :
                Construct(c, f, p)
       \/ Construct(EngineConfig(7, 2, 1, [start_s |-> 0, len_s |-> 1, multiplier |-> 2]),
                     FileTrend, LongPeriod)
    /\ prior = None
    /\ fs = NoFiles(None)
    /\ cli = IdleCli

NextPair ==
    \/ LoadFails
    \/ RunStart
    \/ LoopTick
    \/ LoopExit
    \/ TakeFails
    \/ DropEvent
    \/ ProcessEvent
    \/ Finalize
    \/ RunAgain

SpecPair == InitPair /\ [][NextPair]_vars

\* the commands baseline-save and baseline-check on one report directory
InitCli ==
    /\ \E f \in {FileTwo, FileEmpty, FileMalformed, FileMissing} :
        Construct(DefaultConfig, f, 1)
    /\ prior = None
    /\ \E b \in {None, Some(StaleBaseline)} : fs = NoFiles(b)
    /\ cli = IdleCli

NextCli ==
    \/ BaselineSaveFails
    \/ BaselineSave
    \/ CheckNoBaseline
    \/ CheckStart
    \/ CheckRunFails
    \/ CheckRunEngine
    \/ CheckWriteMetrics
    \/ CheckFinish
    \/ EditFixture
    \/ EditCode

SpecCli == InitCli /\ [][NextCli]_vars

(***************************************************************************)
(* A Metrics object driven call by call: latency samples, then the payload *)
(***************************************************************************)
\* most samples recorded
MaxSamples == 5

\* the latencies and the symbol arguments drawn for Metrics.sample
Latencies == {0, 700, 3000}
SampleSymbols == {NoSymbol, {<<"A">>}}

\* the percentiles asked of _percentile, in hundredths
Pcts == {0, 50, 95, 99, 100}

\* metrics.sample(decision_ns=d, e2e_ns=d, symbol=...)
RecordSample ==
    /\ Len(metrics.decision_ns) < MaxSamples
    /\ \E d \in Latencies, symOpt \in SampleSymbols :
        metrics' = Sample(metrics, d, d, symOpt)
    /\ payload' = None
    /\ UNCHANGED <<cfg, fixture, clock, pc, run, eng, last, hist>>
    /\ UNCHANGED outerVars

\* metrics.to_payload() on the samples recorded so far
Report ==
    /\ payload = None
    /\ payload' = Some(ToPayload(metrics))
    /\ UNCHANGED <<cfg, fixture, clock, pc, run, eng, metrics, last, hist>>
    /\ UNCHANGED outerVars

InitLatency ==
    /\ Construct(DefaultConfig, FileTwo, 1)
    /\ prior = None
    /\ fs = NoFiles(None)
    /\ cli = IdleCli

NextLatency ==
    \/ RecordSample
    \/ Report

SpecLatency == InitLatency /\ [][NextLatency]_vars

(***************************************************************************)
(* A Metrics object driven call by call: queue-depth points                *)
(***************************************************************************)
\* most calls of record_queue_depth
MaxDepthCalls == 203
\* the depth is drawn freely in the first FreeDepths calls; later calls
\* alternate between the two depths
FreeDepths == 3
Depths == {0, 1}

\* metrics.record_queue_depth(t_s, depth) with the default cap; the n-th call
\* comes with the time n
RecordDepth ==
    /\ Len(hist.points) < MaxDepthCalls
    /\ LET n == Len(hist.points) + 1 IN
       \E depth \in (IF n <= FreeDepths THEN Depths ELSE {n % 2}) :
        /\ metrics' = RecordQueueDepth(metrics, n, depth, QueueSeriesCap)
        /\ hist' = [hist EXCEPT !.points = Append(@, <<n, depth>>)]
    /\ UNCHANGED <<cfg, fixture, clock, pc, run, eng, payload, last>>
    /\ UNCHANGED outerVars

InitDepth ==
    /\ Construct(DefaultConfig, FileTwo, 1)
    /\ prior = None
    /\ fs = NoFiles(None)
    /\ cli = IdleCli

NextDepth == RecordDepth

SpecDepth == InitDepth /\ [][NextDepth]_vars

(***************************************************************************)
(* The strategy applied to closes as the fixture file spells them: each    *)
(* step is one processed event of one symbol, lines 96-101 of Engine.run,  *)
(* in float arithmetic.                                                    *)
(***************************************************************************)
\* most events of the strategy
MaxRollEvents == 7

\* the close fields of the rows, as text
CloseTexts == { <<"0", ".", "1">>, <<"0", ".", "2", "5">>, <<"3">> }

RollSymbol == <<"A">>

\* one event: float(row["close"]), _update_roll, diff and signal
StrategyStep ==
    /\ Get(hist.nth, RollSymbol, 0) < MaxRollEvents
    /\ \E text \in CloseTexts :
        LET close == ParseFloat(text)
            roll == UpdateRollFloat(eng, RollSymbol, close)
            diff == DiffFloat(close, roll.ma, Len(roll.eng.windows[RollSymbol]))
            signal == SignalFloat(diff)
        IN  /\ eng' = roll.eng
            /\ last' = [NoDecision EXCEPT
                            !.kind = "decision", !.symbol = RollSymbol,
                            !.signal = signal, !.notional = UnitNotional * signal,
                            !.nth = Get(hist.nth, RollSymbol, 0) + 1]
            /\ hist' = [hist EXCEPT
                            !.nth = Put(@, RollSymbol, Get(@, RollSymbol, 0) + 1),
                            !.closes = Put(@, RollSymbol,
                                           Append(Get(@, RollSymbol, << >>), close))]
    /\ UNCHANGED <<cfg, fixture, clock, pc, run, metrics, payload>>
    /\ UNCHANGED outerVars

InitRoll ==
    /\ Construct(DefaultConfig, FileTwo, 1)
    /\ prior = None
    /\ fs = NoFiles(None)
    /\ cli = IdleCli

NextRoll == StrategyStep

SpecRoll == InitRoll /\ [][NextRoll]_vars

(***************************************************************************)
(* The per-symbol samples of one run written by two processes: the samples *)
(* of a symbol are recorded one by one, then each process attaches         *)
(* per_symbol samples_ms to its payload, as _write_metrics does.           *)
(***************************************************************************)
\* most samples recorded for the symbol
MaxSymSamples == 52

SampledSymbol == <<"A">>
Processes == {1, 2}

\* metrics.sample for the next event of the symbol; its latency is its
\* number, which tells the samples apart
RecordSymSample ==
    /\ fs.run_dirs = EmptyDict
    /\ Len(metrics.decision_ns) < MaxSymSamples
    /\ LET d == Len(metrics.decision_ns) + 1
       IN  metrics' = Sample(metrics, d, d, {SampledSymbol})
    /\ UNCHANGED <<cfg, fixture, clock, pc, run, eng, payload, last, hist>>
    /\ UNCHANGED outerVars

\* lines 57-84 of _write_metrics in process p, whose hash salt is drawn when
\* it starts
WriteSamples ==
    /\ \E p \in Processes \ DOMAIN fs.run_dirs : \E salt \in HashSalts :
        LET by_sym == metrics.decision_ns_by_sym
            written == PayloadAtWrite(by_sym, Len(metrics.decision_ns), cli.seed,
                                      fixture, fs.code)
        IN  fs' = [fs EXCEPT !.run_dirs =
                    Put(@, p, [salt |-> salt,
                               payload |-> AttachSamples(written,
                                    PerSymSamples(by_sym, cli.seed, salt))])]
    /\ UNCHANGED <<cfg, fixture, clock, pc, run, eng, metrics, payload, last, hist>>
    /\ UNCHANGED <<prior, cli>>

InitSamples ==
    /\ Construct(DefaultConfig, FileTwo, 1)
    /\ prior = None
    /\ fs = NoFiles(None)
    /\ \E seed \in Seeds : cli = [IdleCli EXCEPT !.cmd = "run", !.seed = seed]

NextSamples ==
    \/ RecordSymSample
    \/ WriteSamples

SpecSamples == InitSamples /\ [][NextSamples]_vars

(***************************************************************************)
(* The outcomes assumed of an engine run by the command-line model are     *)
(* those the engine model produces (checked under Spec).                   *)
(***************************************************************************)
OutcomesSound ==
    /\ pc = "failed" =>
         \E o \in EngineOutcomes(fixture, cfg.duration_s) : o.raises = hist.error
    /\ pc = "done" =>
         /\ \E o \in EngineOutcomes(fixture, cfg.duration_s) : o.raises = "none"
         /\ (cfg.duration_s = 0 \/ fixture.rows = << >>) => metrics.processed = 0

(***************************************************************************)
(* Claims                                                                  *)
(***************************************************************************)

\* C1: two runs with the same seed, fixture, duration and queue/burst
\* configuration end with the same processed count, drops count,
\* exposure_blocks_total and per-symbol trade counts, whatever the clock
\* returned in each run.  (Stated as claimed; the second run of SpecPair
\* ends with other counts than the first.)
C1_SameCounts ==
    (prior # None /\ pc = "done") => Counts(metrics) = Val(prior)

C4_NoBaselineNoRuns ==
    [][ (BaselineMissing(fs) /\ cli'.cmd = "baseline-check"
            /\ cli'.ncmds = cli.ncmds + 1) =>
        ( /\ cli'.pc = "raised"
          /\ cli'.error = "FileNotFoundError"
          /\ cli'.exit = Some(2)
          /\ cli'.i = 0
          /\ cli'.run_payloads = << >>
          /\ cli'.fprints = << >>
          /\ fs' = fs ) ]_vars

\* a baseline-check that ended for want of a baseline
C4_Witness ==
    /\ cli.cmd = "baseline-check" /\ cli.pc = "raised"
    /\ fs.baseline = None
    /\ cli.exit = Some(2)
    /\ fs.run_dirs = EmptyDict /\ fs.determinism_result = None

\* C5: with max_queue = 0 every event taken is dropped and none is
\* processed: processed is 0, no latency sample is recorded and drops
\* equals the number of events taken.
C5_ZeroQueueDropsAll ==
    cfg.max_queue = 0 =>
        /\ run.processed = 0
        /\ metrics.processed = 0
        /\ metrics.decision_ns = << >>
        /\ metrics.e2e_ns = << >>
        /\ metrics.decision_ns_by_sym = EmptyDict
        /\ metrics.drops_total = run.idx
        /\ last.kind # "decision"

\* a finished run with max_queue = 0 that took several events
C5_Witness ==
    /\ cfg.max_queue = 0
    /\ pc = "done"
    /\ run.idx >= 2
    /\ metrics.drops_total = run.idx

\* C6: the idempotency-violation counter equals the number of processed
\* decisions minus the number of distinct (symbol, timestamp, signal) triples
\* processed so far.  (Stated as claimed; two distinct triples whose symbol
\* and timestamp hold ":" format to the same order id.)
C6_ViolationsCountRepeats ==
    metrics.idempotency_violations = run.processed - Cardinality(hist.triples)

\* C7: the payload's reliability.idempotency_violations equals the number
\* of violations the engine counted.  (Stated as claimed; to_payload reports
\* the literal 0.)
C7_PayloadSurfacesViolations ==
    payload # None =>
        Val(payload).reliability.idempotency_violations
            = metrics.idempotency_violations

\* C8: exposure_blocks_total, and the count of the reason, equal the number
\* of decisions the risk gate rejected.  (Stated as claimed; the engine calls
\* exposure_block twice for one rejection.)
C8_BlocksCountRejections ==
    /\ metrics.exposure_blocks_total = hist.rejected
    /\ Get(metrics.exposure_block_reasons, "EXPOSURE_CAP", 0) = hist.rejected

\* C9: when the risk gate rejects a decision, the position of every symbol
\* and every per-symbol trade counter stay as they were, and the gate
\* rejects the same notional for the same symbol again, with the same reason.
C9_RejectionKeepsPositions ==
    [][ (run'.processed = run.processed + 1 /\ ~last'.ok) =>
        ( /\ \A s \in (DOMAIN eng.positions) \cup (DOMAIN eng'.positions) :
                Get(eng'.positions, s, 0) = Get(eng.positions, s, 0)
          /\ metrics'.trades_by_sym = metrics.trades_by_sym
          /\ RiskGate(eng'.positions, last'.symbol, last'.notional)
                = [ok |-> FALSE, reason |-> last'.reason] ) ]_vars

\* a second rejection in a row, at the position of the first
C9_Witness ==
    /\ last.kind = "decision"
    /\ ~last.ok
    /\ hist.rejected >= 2
    /\ Get(eng.positions, last.symbol, 0) = last.pos_before

\* C10: the first 4 processed events of a symbol yield signal 0, notional 0
\* and no trade, whatever their closes.
C10_ColdStart ==
    /\ (last.kind = "decision" /\ last.nth <= 4) =>
            (last.signal = 0 /\ last.notional = 0)
    /\ \A s \in DOMAIN hist.nth :
            hist.nth[s] <= 4 => Get(metrics.trades_by_sym, s, 0) = 0

\* the 4th processed event of a symbol whose closes so far differ
C10_Witness ==
    /\ last.kind = "decision"
    /\ last.nth = 4
    /\ last.signal = 0
    /\ LET w == eng.windows[last.symbol] IN w[4] # w[3]

\* C11: for a non-empty sorted sequence xs, _percentile(xs, 0.0) is the
\* minimum of xs and _percentile(xs, 1.0) the maximum; for the empty
\* sequence _percentile returns 0 for every p.
C11_PercentileEnds ==
    LET xs == Sorted(metrics.decision_ns)
        n == Len(xs)
    IN  IF n = 0
        THEN \A p \in Pcts : Percentile(xs, p) = 0
        ELSE /\ \E i \in 1..n : /\ Percentile(xs, 0) = PctScale * xs[i]
                                 /\ \A j \in 1..n : xs[i] <= xs[j]
             /\ \E i \in 1..n : /\ Percentile(xs, 100) = PctScale * xs[i]
                                 /\ \A j \in 1..n : xs[i] >= xs[j]

\* samples recorded out of order, with a minimum below the second smallest
C11_Witness ==
    LET xs == Sorted(metrics.decision_ns) IN
    /\ Len(xs) >= 3
    /\ xs # metrics.decision_ns
    /\ xs[1] < xs[2]
    /\ xs[Len(xs) - 1] < xs[Len(xs)]

\* C12: for every sequence of recorded decision-latency samples, the empty
\* one and those of length 1 and 2 included, the payload has
\* p50 <= p95 <= p99 <= max, each percentile being the linear interpolation
\* between the samples at the floor and the ceiling rank of k = (n-1)*p in
\* the sorted samples.
C12_PercentilesOrdered ==
    payload # None =>
        LET d == Val(payload).latency.decision_ms
            xs == Sorted(metrics.decision_ns)
            n == Len(xs)
            Lerp(pct) ==
                LET k == (n - 1) * pct
                    lo == k \div PctScale
                    hi == IF k % PctScale = 0 THEN lo ELSE lo + 1
                IN  PctScale * xs[lo + 1] + (xs[hi + 1] - xs[lo + 1]) * (k - lo * PctScale)
        IN  /\ d.p50 <= d.p95 /\ d.p95 <= d.p99 /\ d.p99 <= d.max
            /\ n = 0 => (d.p50 = 0 /\ d.p95 = 0 /\ d.p99 = 0 /\ d.max = 0)
            /\ n > 0 => /\ d.p50 = Lerp(50)
                        /\ d.p95 = Lerp(95)
                        /\ d.p99 = Lerp(99)
                        /\ \A i \in 1..n : PctScale * xs[i] <= d.max

\* a payload of two samples recorded in descending order, whose percentiles
\* lie strictly between them
C12_Witness ==
    /\ payload # None
    /\ Len(metrics.decision_ns) = 2
    /\ metrics.decision_ns[1] > metrics.decision_ns[2]
    /\ LET d == Val(payload).latency.decision_ms IN
        /\ d.p50 < d.p95 /\ d.p95 < d.p99 /\ d.p99 < d.max

\* C13: after n calls of record_queue_depth with the default cap the series
\* holds the most recent min(n, 200) points in the order they were recorded;
\* its length never exceeds 200 and a call beyond the 200th evicts exactly
\* the oldest point.
C13_SeriesIsRecentWindow ==
    LET n == Len(hist.points)
        series == metrics.queue_depth_series
    IN  /\ Len(series) = Min(n, QueueSeriesCap)
        /\ Len(series) <= QueueSeriesCap
        /\ series = SubSeq(hist.points, n - Len(series) + 1, n)

\* two points have been evicted
C13_Witness ==
    /\ Len(hist.points) = QueueSeriesCap + 2
    /\ Len(metrics.queue_depth_series) = QueueSeriesCap
    /\ metrics.queue_depth_series[1] = hist.points[3]
    /\ metrics.queue_depth_series[1] # hist.points[1]

\* C14: a run fails only while the fixture is loaded, before the loop begins
\* and before any event is taken or any metric recorded; once the loop has
\* started the run never aborts.  (Stated as claimed; a readable fixture
\* with no rows makes the first event of the loop raise ZeroDivisionError.)
C14_FailsOnlyAtLoad ==
    pc = "failed" =>
        /\ ~Loads(fixture)
        /\ run = NewRun
        /\ metrics = NewMetrics
        /\ hist.tick.n = 0

\* C15: in every state of a run, for every configuration (max_queue <= 0
\* included), the queue depth and the counters drops, exposure blocks
\* (total, per reason, per symbol), idempotency violations, per-symbol
\* trades and processed are >= 0, and no counter decreases in a step.
C15_CountersMonotone ==
    /\ [] ( /\ run.qdepth >= 0
            /\ run.processed >= 0
            /\ metrics.processed >= 0
            /\ metrics.drops_total >= 0
            /\ metrics.exposure_blocks_total >= 0
            /\ metrics.idempotency_violations >= 0
            /\ \A k \in DOMAIN metrics.exposure_block_reasons :
                    metrics.exposure_block_reasons[k] >= 0
            /\ \A k \in DOMAIN metrics.exposure_blocks_by_sym :
                    metrics.exposure_blocks_by_sym[k] >= 0
            /\ \A k \in DOMAIN metrics.trades_by_sym : metrics.trades_by_sym[k] >= 0
            /\ \A k \in DOMAIN metrics.processed_by_sym :
                    metrics.processed_by_sym[k] >= 0 )
    /\ [][ /\ run'.processed >= run.processed
           /\ metrics'.processed >= metrics.processed
           /\ metrics'.drops_total >= metrics.drops_total
           /\ metrics'.exposure_blocks_total >= metrics.exposure_blocks_total
           /\ metrics'.idempotency_violations >= metrics.idempotency_violations
           /\ \A k \in DOMAIN metrics.exposure_block_reasons :
                Get(metrics'.exposure_block_reasons, k, -1)
                    >= metrics.exposure_block_reasons[k]
           /\ \A k \in DOMAIN metrics.exposure_blocks_by_sym :
                Get(metrics'.exposure_blocks_by_sym, k, -1)
                    >= metrics.exposure_blocks_by_sym[k]
           /\ \A k \in DOMAIN metrics.trades_by_sym :
                Get(metrics'.trades_by_sym, k, -1) >= metrics.trades_by_sym[k]
           /\ \A k \in DOMAIN metrics.processed_by_sym :
                Get(metrics'.processed_by_sym, k, -1) >= metrics.processed_by_sym[k]
         ]_vars

\* a finished run with a negative max_queue that dropped several events
C15_Witness ==
    /\ pc = "done"
    /\ cfg.max_queue < 0
    /\ metrics.drops_total >= 3
    /\ run.qdepth = 0

\* C16 as claimed: every processed event appends one sample globally and one
\* to its symbol, so per symbol the sample count and processed_by_sym equal
\* the processed events of that symbol, the payload's per_symbol has exactly
\* the symbols with a processed event and its processed counts sum to
\* processed.  (An event whose symbol is the empty string gets no per-symbol
\* sample.)
C16_SamplePerEvent ==
    /\ Len(metrics.decision_ns) = run.processed
    /\ Len(metrics.e2e_ns) = run.processed
    /\ \A s \in DOMAIN hist.nth :
            /\ Len(Get(metrics.decision_ns_by_sym, s, << >>)) = hist.nth[s]
            /\ Len(Get(metrics.e2e_ns_by_sym, s, << >>)) = hist.nth[s]
            /\ Get(metrics.processed_by_sym, s, 0) = hist.nth[s]
    /\ payload # None =>
            LET per == Val(payload).per_symbol IN
            /\ DOMAIN per = DOMAIN hist.nth
            /\ SumOf([s \in DOMAIN per |-> per[s].processed]) = Val(payload).processed

\* C16, amended: every processed event appends one sample to decision_ns and
\* one to e2e_ns; an event whose symbol is not the empty string also appends
\* one to its symbol's lists and adds 1 to processed_by_sym.  The payload's
\* per_symbol has exactly the non-empty symbols with a processed event, and
\* its processed counts sum to processed minus the events of the empty symbol.
C16_SamplePerNamedEvent ==
    /\ Len(metrics.decision_ns) = run.processed
    /\ Len(metrics.e2e_ns) = run.processed
    /\ \A s \in (DOMAIN hist.nth) \ {<< >>} :
            /\ Len(Get(metrics.decision_ns_by_sym, s, << >>)) = hist.nth[s]
            /\ Len(Get(metrics.e2e_ns_by_sym, s, << >>)) = hist.nth[s]
            /\ Get(metrics.processed_by_sym, s, 0) = hist.nth[s]
    /\ << >> \notin DOMAIN metrics.decision_ns_by_sym
    /\ << >> \notin DOMAIN metrics.processed_by_sym
    /\ payload # None =>
            LET per == Val(payload).per_symbol IN
            /\ DOMAIN per = (DOMAIN hist.nth) \ {<< >>}
            /\ \A s \in DOMAIN per : per[s].processed = hist.nth[s]
            /\ SumOf([s \in DOMAIN per |-> per[s].processed])
                    = Val(payload).processed - Get(hist.nth, << >>, 0)

\* a payload after events of the empty symbol and of a named symbol
C16_Witness ==
    /\ payload # None
    /\ Get(hist.nth, << >>, 0) >= 2
    /\ Get(hist.nth, <<"A">>, 0) >= 2
    /\ DOMAIN Val(payload).per_symbol = {<<"A">>}

\* C17 as claimed: on every outer tick the number of events taken is
\* burst_multiplier when the elapsed time read at that tick lies in
\* [burst_start_s, burst_start_s + burst_len_s) and 1 otherwise, and a run
\* whose duration is not greater than burst_start_s takes 1 event on every
\* tick.  (The elapsed time is the last one the tick read for the window.)
C17_BurstTicks ==
    (hist.tick.n > 0 /\ pc # "failed") =>
        LET t == hist.tick
            elapsed == IF t.hi = None THEN t.lo ELSE Val(t.hi)
            inside == /\ elapsed >= cfg.burst_start_s * UsPerSecond
                      /\ elapsed < (cfg.burst_start_s + cfg.burst_len_s) * UsPerSecond
            taken == t.taken + (IF pc = "for" THEN run.left ELSE 0)
        IN  /\ taken = (IF inside THEN cfg.burst_multiplier ELSE 1)
            /\ cfg.duration_s <= cfg.burst_start_s => taken = 1

\* C17, amended: on every outer tick over a fixture with rows, the number of
\* events taken is max(burst_multiplier, 0) when the elapsed time read for
\* the lower comparison is >= burst_start_s and the one read next for the
\* upper comparison is < burst_start_s + burst_len_s, and 1 otherwise.  In a
\* run whose duration is not greater than burst_start_s only the last tick
\* can take other than 1 event: its loop test read the clock before
\* end_time and its lower comparison read it at or after burst_start_s.
C17_BurstTicksByReadings ==
    (hist.tick.n > 0 /\ pc # "failed") =>
        LET t == hist.tick
            begun == t.lo >= cfg.burst_start_s * UsPerSecond
            inside == /\ begun
                      /\ t.hi # None
                      /\ Val(t.hi) < (cfg.burst_start_s + cfg.burst_len_s) * UsPerSecond
            taken == t.taken + (IF pc = "for" THEN run.left ELSE 0)
        IN  /\ taken = (IF inside THEN Max(cfg.burst_multiplier, 0) ELSE 1)
            /\ (t.hi = None) <=> ~begun
            /\ (cfg.duration_s <= cfg.burst_start_s /\ taken # 1) =>
                    (begun /\ clock.now >= run.end_time)

\* a finished run whose duration equals burst_start_s and whose last tick
\* took burst_multiplier events
C17_Witness ==
    /\ pc = "done"
    /\ cfg.duration_s > 0
    /\ cfg.duration_s <= cfg.burst_start_s
    /\ hist.tick.taken = cfg.burst_multiplier
    /\ cfg.burst_multiplier > 1
    /\ hist.tick.n >= 2

\* C18: sampling of the queue depth does not depend on whether an event is
\* processed: whenever an event has been handled, processed or dropped, and
\* the clock has reached the next 50 ms deadline, a point is appended to the
\* series.  (Stated as claimed; a dropped event skips the sampling code, and
\* a run that drops every event records no point.)
C18_SamplingIndependent ==
    [][ (run'.idx = run.idx + 1 /\ clock'.now >= run.next_sample_ns) =>
            Len(hist'.points) = Len(hist.points) + 1 ]_vars

\* C19: a processed decision is rejected if and only if
\* |positions[symbol] + notional| > NAV * 0.05 on the position before the
\* decision; an accepted decision adds notional to positions[symbol] and
\* counts a trade of the symbol if and only if signal # 0, so
\* trades_by_sym[s] is the number of accepted decisions of s with a
\* non-zero signal.
C19_GateAndTrades ==
    /\ [] ( /\ last.kind = "decision" =>
                /\ ~last.ok <=>
                        Abs(last.pos_before + last.notional) * 100 > NAV * PerAssetCapPct
                /\ last.ok =>
                        Get(eng.positions, last.symbol, 0)
                            = last.pos_before + last.notional
            /\ \A s \in (DOMAIN hist.nth) \cup (DOMAIN metrics.trades_by_sym) :
                    Get(metrics.trades_by_sym, s, 0) = Get(hist.traded, s, 0) )
    /\ [][ run'.processed = run.processed + 1 =>
            LET s == last'.symbol IN
            /\ last'.pos_before = Get(eng.positions, s, 0)
            /\ Get(metrics'.trades_by_sym, s, 0) =
                    Get(metrics.trades_by_sym, s, 0)
                        + (IF last'.ok /\ last'.signal # 0 THEN 1 ELSE 0)
            /\ \A o \in (DOMAIN metrics'.trades_by_sym) \ {s} :
                    Get(metrics.trades_by_sym, o, 0) = metrics'.trades_by_sym[o]
          ]_vars

\* a decision accepted exactly at the cap, and later one rejected above it
C19_Witness ==
    /\ last.kind = "decision"
    /\ ~last.ok
    /\ Abs(last.pos_before) * 100 = NAV * PerAssetCapPct
    /\ Get(metrics.trades_by_sym, last.symbol, 0) * UnitNotional = Abs(last.pos_before)
    /\ hist.accepted > Get(metrics.trades_by_sym, last.symbol, 0)

\* the exact sum of non-negative floats, as the natural n of n * 2^e
RECURSIVE ExactSum(_, _)
ExactSum(xs, e) ==
    IF xs = << >> THEN << >>
    ELSE NAdd(NShl(Head(xs).m, Head(xs).e - e), ExactSum(Tail(xs), e))

\* the sign of the exact value count * x - (sum of xs), for non-negative floats
ExactSign(x, count, xs) ==
    LET e == CHOOSE k \in {y.e : y \in {x} \cup {xs[i] : i \in 1..Len(xs)}} :
                \A y \in {x} \cup {xs[i] : i \in 1..Len(xs)} : k <= y.e
        lhs == NTimes(NShl(x.m, x.e - e), count)
        rhs == ExactSum(xs, e)
    IN  IF NLess(rhs, lhs) THEN 1 ELSE IF NLess(lhs, rhs) THEN -1 ELSE 0

\* C20: for the j-th processed event of a symbol with j >= 5 the signal is
\* -1 if its close is above, +1 if below and 0 if equal to the moving
\* average of the symbol's last min(j, 10) processed closes, the current one
\* included; the window holds those closes and never more than 10.
\* (Stated as claimed, the average being that of the closes as numbers; the
\* running float sum makes a close that equals the average differ from it.)
C20_SignalFollowsAverage ==
    /\ \A s \in DOMAIN eng.windows :
            LET all == hist.closes[s]
                j == Len(all)
            IN  /\ Len(eng.windows[s]) <= WindowMaxLen
                /\ eng.windows[s] = SubSeq(all, j - Min(j, WindowMaxLen) + 1, j)
    /\ (last.kind = "decision" /\ last.nth >= MinWindow) =>
            LET all == hist.closes[last.symbol]
                j == Len(all)
                recent == SubSeq(all, j - Min(j, WindowMaxLen) + 1, j)
                above == ExactSign(all[j], Len(recent), recent)
            IN  last.signal = (IF above > 0 THEN -1 ELSE IF above < 0 THEN 1 ELSE 0)

\* C21: for a fixture of L >= 1 rows, the n-th event taken in a run (n from
\* 0, processed and dropped events counted alike) is fixture row n mod L: a
\* dropped event consumes its row, and the rows are taken in file order,
\* wrapping after the last.
C21_FileOrderCyclic ==
    /\ pc \notin {"ready", "failed"} => run.idx = hist.ntaken
    /\ last.kind \in {"drop", "decision"} =>
            /\ Len(fixture.rows) >= 1
            /\ hist.ntaken >= 1
            /\ last.evt = fixture.rows[((hist.ntaken - 1) % Len(fixture.rows)) + 1]
            /\ last.kind = "decision" =>
                    (last.symbol = last.evt.symbol /\ last.ts = last.evt.ts)

\* a dropped event that is the first row of the fixture, taken for the
\* second time
C21_Witness ==
    /\ last.kind = "drop"
    /\ Len(fixture.rows) >= 2
    /\ hist.ntaken = Len(fixture.rows) + 1
    /\ last.evt = fixture.rows[1]
    /\ last.evt # fixture.rows[Len(fixture.rows)]

\* the sum of the elements of a sequence of integers
RECURSIVE SeqSum(_)
SeqSum(s) == IF s = << >> THEN 0 ELSE Head(s) + SeqSum(Tail(s))

\* C22: for every run, the payload's latency histogram has exactly 20 bins
\* of equal width spanning [0, max(p99, 1 ms)]; each decision sample is
\* counted in exactly one bin, bin floor(sample / binWidth) clamped to the
\* last, so the counts sum to the number of decision samples; 20 upper
\* edges are reported with the 20 counts.  (Stated as claimed; the payload
\* of a run without decision samples has no bins and no edges.)
C22_HistogramTwentyBins ==
    payload # None =>
        LET h == Val(payload).latency.histogram
            xs == metrics.decision_ns
            upper == Max(Val(payload).latency.decision_ms.p99, PctScale * UsPerMs)
        IN  /\ Len(h.counts) = HistBins
            /\ Len(h.bins_ms) = HistBins
            /\ SeqSum(h.counts) = Len(xs)
            /\ \A i \in 1..HistBins :
                    /\ h.counts[i] =
                         Cardinality({j \in 1..Len(xs) :
                            \/ (i - 1) * upper <= xs[j] * PctScale * HistBins
                                    /\ xs[j] * PctScale * HistBins < i * upper
                            \/ i = HistBins /\ xs[j] * PctScale * HistBins >= i * upper})
                    /\ Abs(h.bins_ms[i] * HistBins * PctScale - i * upper)
                            * 2 <= HistBins * PctScale

\* C23: after a determinism check each of run_1, run_2 and run_3 holds a
\* metrics.json whose content is the payload run_engine_once returned for
\* that run, the per-symbol samples_ms included; that of run_3 differs only
\* by determinism_ok, set to pass.  (Stated as claimed; metrics.json is
\* written before samples_ms is attached, and only run_3's file is written
\* again.)
C23_RunsPersistFullPayload ==
    (cli.cmd = "baseline-check" /\ cli.pc = "returned") =>
        \A k \in 1..CheckRuns :
            /\ k \in DOMAIN fs.run_dirs
            /\ fs.run_dirs[k].metrics_json =
                    IF k = CheckRuns
                    THEN [cli.run_payloads[k] EXCEPT
                            !.determinism_ok = Val(cli.summary).pass]
                    ELSE cli.run_payloads[k]

\* C24: a run's payload is produced with determinism_ok = false, and the
\* determinism check changes afterwards only determinism_ok and only for the
\* last run: the last run's payload, as returned and as written to run_3,
\* has determinism_ok = pass and every other field as run_engine_once
\* returned it; the payloads and the files of run_1 and run_2 stay as they
\* were and keep determinism_ok = false, also when pass is true.
C24_OnlyLastRunPatched ==
    /\ [] ( /\ \A k \in 1..Len(cli.run_payloads) : ~cli.run_payloads[k].determinism_ok
            /\ \A k \in (DOMAIN fs.run_dirs) \ {CheckRuns} :
                    ~fs.run_dirs[k].metrics_json.determinism_ok
            /\ (cli.cmd = "baseline-check" /\ cli.pc = "returned") =>
                    LET lp == Val(cli.last_payload)
                        own == cli.run_payloads[CheckRuns]
                    IN  /\ lp.determinism_ok = Val(cli.summary).pass
                        /\ DOMAIN lp = DOMAIN own
                        /\ \A f \in (DOMAIN lp) \ {"determinism_ok"} : lp[f] = own[f]
                        /\ fs.run_dirs[CheckRuns].metrics_json = lp )
    /\ [][ (cli.pc = "finish" /\ cli'.pc = "returned") =>
            /\ cli'.run_payloads = cli.run_payloads
            /\ DOMAIN fs'.run_dirs = DOMAIN fs.run_dirs
            /\ \A k \in (DOMAIN fs.run_dirs) \ {CheckRuns} :
                    fs'.run_dirs[k] = fs.run_dirs[k]
            /\ fs'.run_dirs[CheckRuns].run_fingerprint
                    = fs.run_dirs[CheckRuns].run_fingerprint ]_vars

\* a passing check whose three runs each processed an event: run_3 carries
\* true, run_1 and run_2 false
C24_Witness ==
    /\ cli.cmd = "baseline-check" /\ cli.pc = "returned"
    /\ Val(cli.summary).pass
    /\ \A k \in 1..CheckRuns : cli.run_payloads[k].processed >= 1
    /\ Val(cli.last_payload).determinism_ok
    /\ fs.run_dirs[CheckRuns].metrics_json.determinism_ok
    /\ ~fs.run_dirs[1].metrics_json.determinism_ok
    /\ ~fs.run_dirs[2].metrics_json.determinism_ok

\* C25: for the same run seed, the same symbol and the same sequence of the
\* symbol's latencies, the samples_ms selected are identical in any two
\* runs, also in two processes; they are at most 50, and all the latencies
\* when there are at most 50.  (Stated as claimed; the generator is seeded
\* with seed + hash(sym), and hash of a str differs from process to
\* process.)
C25_SamplesReproducible ==
    \A p \in DOMAIN fs.run_dirs :
        LET mine == fs.run_dirs[p].payload.per_symbol IN
        /\ \A s \in DOMAIN mine :
                /\ Len(mine[s].samples_ms) <= ReservoirSize
                /\ Len(metrics.decision_ns_by_sym[s]) <= ReservoirSize =>
                        mine[s].samples_ms = metrics.decision_ns_by_sym[s]
        /\ \A q \in DOMAIN fs.run_dirs :
                \A s \in DOMAIN mine :
                    fs.run_dirs[q].payload.per_symbol[s].samples_ms = mine[s].samples_ms

\* the parts of C26 that do not depend on the bound of the late events
C26_Common ==
    /\ [] ( /\ (Loads(fixture) /\ fixture.rows # << >>) => pc # "failed"
            /\ pc = "done" =>
                    /\ metrics.processed = run.processed
                    /\ run.processed = hist.accepted + hist.rejected
                    /\ run.processed >= 1 =>
                            metrics.elapsed_ns = Val(run.last_processed_ns)
                                                    - Val(run.first_processed_ns)
                    /\ run.processed = 0 => metrics.elapsed_ns = 0 )
    /\ [][ /\ (pc # "ready" /\ clock.now >= run.end_time) =>
                    hist'.tick.n = hist.tick.n
           /\ (pc \in {"while", "for"} /\ pc' \notin {"while", "for"}) =>
                    \/ pc = "while" /\ pc' = "finalize" /\ clock'.now >= run.end_time
                    \/ pc = "for" /\ pc' = "failed" /\ fixture.rows = << >> ]_vars
    /\ (Loads(fixture) /\ fixture.rows # << >>) => <>(pc = "done")

\* C26 as claimed: if the clock keeps advancing and the fixture loads with
\* at least one row the run terminates; once a reading of the clock has
\* reached start + duration no new outer tick starts and at most
\* burst_multiplier further events are handled; run returns the metrics with
\* processed and elapsed set; the loop has no other exit.  (With a
\* burst_multiplier below 1 a tick outside the burst window still handles
\* its one event after that reading.)
C26_Terminates ==
    /\ C26_Common
    /\ [](pc # "ready" => hist.late <= cfg.burst_multiplier)

\* C26, amended: as claimed, with at most max(burst_multiplier, 1) events
\* handled after the reading that reached start + duration, and elapsed set
\* to the time between the first and the last processed event, left at 0
\* when no event was processed.
C26_TerminatesTickBound ==
    /\ C26_Common
    /\ [](pc # "ready" => hist.late <= Max(cfg.burst_multiplier, 1))

\* a finished run that handled two events of a burst tick after the clock
\* had reached the end of the run
C26_Witness ==
    /\ pc = "done"
    /\ hist.late >= 2
    /\ run.processed >= 2
    /\ metrics.elapsed_ns > 0

\* C27: in every reachable state of a run every position is within
\* NAV * 0.05 = 50,000 in absolute value and a multiple of 1,000; a decision
\* with signal 0 is never rejected by the risk gate, and a rejection happens
\* only with the position at +50,000 or -50,000 and a notional of the same
\* sign.
C27_PositionsWithinCap ==
    LET cap == (NAV * PerAssetCapPct) \div 100
    IN  /\ cap = 50000
        /\ \A s \in DOMAIN eng.positions :
                /\ Abs(eng.positions[s]) <= cap
                /\ eng.positions[s] % UnitNotional = 0
        /\ (last.kind = "decision" /\ last.signal = 0) =>
                last.ok /\ last.notional = 0
        /\ (last.kind = "decision" /\ ~last.ok) =>
                /\ Abs(last.pos_before) = cap
                /\ last.pos_before * last.signal > 0
                /\ last.notional = UnitNotional * last.signal
                /\ Get(eng.positions, last.symbol, 0) = last.pos_before

\* a decision rejected with the position of its symbol at the cap
C27_Witness ==
    /\ last.kind = "decision"
    /\ ~last.ok
    /\ Abs(Get(eng.positions, last.symbol, 0)) = 50000
    /\ last.signal # 0

\* C28: the queue depth is 0 at every backpressure check and never exceeds
\* 1; with max_queue >= 1 no event is dropped, whatever the burst window and
\* burst_multiplier, and every recorded queue-depth point has depth 0; with
\* max_queue <= 0 every event taken is dropped and none is processed.
C28_DepthAlwaysZero ==
    /\ run.qdepth = 0
    /\ hist.qpeak <= 1
    /\ \A i \in 1..Len(hist.points) : hist.points[i][2] = 0
    /\ \A i \in 1..Len(metrics.queue_depth_series) :
            metrics.queue_depth_series[i][2] = 0
    /\ cfg.max_queue >= 1 =>
            /\ metrics.drops_total = 0
            /\ last.kind # "drop"
            /\ run.processed = hist.ntaken
    /\ cfg.max_queue <= 0 =>
            /\ metrics.drops_total = hist.ntaken
            /\ run.processed = 0
            /\ last.kind # "decision"

\* a run with max_queue 1 that has handled all events of a burst tick of
\* multiplier 2 or more, recorded queue-depth points and dropped nothing
C28_Witness ==
    /\ pc = "done"
    /\ cfg.max_queue = 1
    /\ cfg.burst_multiplier >= 2
    /\ hist.late >= 2
    /\ hist.qpeak = 1
    /\ Len(hist.points) >= 2
    /\ metrics.drops_total = 0

\* C29: for two runs with the same seed, fixture and max_queue >= 1, whatever
\* their clocks, the k-th processed decision of both has the same symbol,
\* timestamp, signal, order id, gate outcome and idempotency verdict for
\* every k up to the smaller processed count: one decision sequence is a
\* prefix of the other.
C29_DecisionsPrefix ==
    (prior # None /\ cfg.max_queue >= 1) =>
        /\ Len(hist.decisions) = run.processed
        /\ Len(hist.before) = Val(prior).processed
        /\ \A k \in 1..Min(Len(hist.before), Len(hist.decisions)) :
                hist.decisions[k] = hist.before[k]

\* two finished runs with different processed counts, the second longer,
\* whose common decisions include a signal and a rejection by the gate
C29_Witness ==
    /\ prior # None
    /\ pc = "done"
    /\ cfg.max_queue >= 1
    /\ Len(hist.before) >= 2
    /\ Len(hist.decisions) > Len(hist.before)
    /\ \E k \in 1..Len(hist.before) : hist.before[k][3] # 0
    /\ \E k \in 1..Len(hist.before) : ~hist.before[k][5]

\* C30: the result of the determinism check depends only on the baseline
\* file, the seed and the content hashes of fixture and code: the fingerprint
\* a run adds is that of the seed and of the two files as they are when the
\* run is written, whatever the run processed; pass says that the 3
\* fingerprints equal the stripped baseline file; so a check whose 3 runs
\* processed different numbers of events passes as well.
C30_ResultIgnoresRuns ==
    /\ [][ /\ (cli.pc = "write" /\ cli'.pc # "write") =>
                cli'.fprints =
                    Append(cli.fprints,
                           Fingerprint(cli.seed, FixtureHash(fixture), HashCode(fs.code)))
           /\ (cli.pc = "finish" /\ cli'.pc # "finish") =>
                cli'.summary =
                    Some([baseline |-> Strip(Val(fs.baseline)),
                          fingerprints |-> cli.fprints,
                          pass |-> \A k \in 1..Len(cli.fprints) :
                                        cli.fprints[k] = Strip(Val(fs.baseline))]) ]_vars
    /\ [] ( (cli.cmd = "baseline-check" /\ cli.pc = "returned" /\ cli.edits = 0) =>
                /\ Val(cli.summary).pass <=>
                        Strip(Val(fs.baseline))
                            = Fingerprint(cli.seed, HashFile(fixture), HashCode(fs.code))
                /\ fs.determinism_result = cli.summary )

\* a check that passed although its 3 runs did not process the same number
\* of events: the last run ended with another count than the first two
C30_Witness ==
    /\ cli.cmd = "baseline-check" /\ cli.pc = "returned"
    /\ Val(cli.summary).pass
    /\ Len(Val(cli.summary).fingerprints) = CheckRuns
    /\ cli.run_payloads[1].processed = cli.run_payloads[2].processed
    /\ cli.run_payloads[3].processed # cli.run_payloads[2].processed
    /\ \A k \in 1..CheckRuns : Val(cli.summary).fingerprints[k] = cli.baseline

====
